---- MODULE Spec2Model ----
(***************************************************************************)
(* A model of the ProtoWeb data-link laboratory programs:                  *)
(*   - the Hamming SEC-DED codec (3_LAB/main_app.py),                      *)
(*   - byte stuffing, framing and the FCS field (3_LAB, 4_LAB),            *)
(*   - the CSMA/CD transmitter and the receive path (4_LAB/main_app.py).   *)
(* Bytes are integers 0..255, bit vectors are sequences over {0, 1}.       *)
(***************************************************************************)
EXTENDS Integers, Sequences, FiniteSets, TLC

VARIABLES
    \* --- Hamming codec harness (hamming_encode / hamming_decode) ---
    hpc,            \* "start" | "encoded" | "decoded" | "compared"
    data_bits,      \* the data vector handed to hamming_encode
    encoded_bits,   \* the codeword, after encoding and after any bit flips
    flipped,        \* set of 0-based codeword indices flipped so far
    decoded,        \* result of hamming_decode: <<data, corrected, double>>
    decoded_4,      \* result of hamming_decode of 4_LAB/hamming_functions.py
    \* --- byte-stuffing harness (stuffing loop / de-stuffing loop) ---
    spc,            \* "start" | "stuffed" | "unstuffed"
    chunk,          \* the bytes to stuff
    stuffed_data,   \* the stuffed form of chunk
    unstuffed_data, \* the result of de-stuffing stuffed_data
    \* --- the FCS variant (3_LAB): one sender, the line, one receiver ---
    lab3_pc,        \* "idle" | "sent"
    lab3_sent,      \* what send_data prepared: <<source_port_num, chunk, flips>>
    lab3_line,      \* bytes written to port_tx and not yet read from port_rx
    lab3_rx_buffer, \* rx_buffer of the receiving endpoint
    lab3_output,    \* packets shown by on_data_received, oldest first
    \* --- the CSMA/CD variant (4_LAB): transmit_with_csma_cd ---
    tx_pc,          \* "idle" | "loop" | "poll_wait" | "sending" | "backoff"
                    \* | "error_wait" | "returned"
    tx_data,        \* the frame handed to transmit_with_csma_cd
    tx_i,           \* index of the next byte in the for loop over data
    collision_count,
    retry_count,
    tx_result,      \* "none" before the call returns, then "True" or "False"
    line,           \* bytes written to port_tx and not yet read by the peer
    \* what an observer of the call has seen so far
    tx_written,     \* bytes written to the port since the last clear sense
    tx_attempts,    \* number of clear senses (transmission attempts)
    tx_seen,        \* events seen: "busy", "no_collision", "frame_byte"
    tx_aborts,      \* <<cause, shape>> of every aborted attempt
    \* --- the CSMA/CD variant (4_LAB): send_data and the receive path ---
    tx_frames,      \* [chunk, frame] records send_data has still to transmit
    sends,          \* number of send_data calls so far
    sent_ok,        \* chunks of the frames whose transmission returned True
    rx_buffer_1,    \* rx_buffer of the receiving endpoint
    output_text,    \* packets shown by on_data_received, oldest first
    \* --- the CSMA/CD variant (4_LAB): the endpoint ---
    ports_open,     \* port_tx_1 and port_rx_1 are open
    stop_requested, \* the disconnect button has been clicked
    tx_message,     \* the chunks of the message send_data prepared last
    tx_calls,       \* [chunk, result] of every transmit call that returned
    \* --- on_data_received_1 (4_LAB) fed with the frames of one message ---
    feed_mode,      \* "off" | "bytes" (one byte per call) | "batch" (one call)
    feed_payloads,  \* the chunks of the message, in order
    feed_stream,    \* the frames of the message, one after the other
    feed_pending,   \* the bytes of feed_stream not yet handed over
    \* --- SerialWorker (4_LAB) and the disconnect that stops it ---
    w_pc,           \* "off" | "check" | "read" | "got" | "finished"
    is_running,     \* SerialWorker._is_running
    w_byte,         \* the byte read(1) returned, -1 when there is none
    w_line,         \* bytes waiting on the receive port
    w_emitted,      \* signals emitted so far, [signal, arg] each
    rx_port_open,   \* port_rx_1 is open
    dc_pc,          \* disconnect_ports_1: "none" | "waiting" | "closed"
    reads_after_stop,   \* read(1) calls that returned after stop()
    signals_after_stop, \* signals emitted after stop()
    w_read,         \* the bytes read(1) has returned so far
    read_failed,    \* TRUE once read(1) has raised
    tx_port_1_open, \* port_tx_1.is_open
    is_connected,   \* what toggle_controls_state_1 was last called with
    \* --- prepare_data (4_LAB) on its own ---
    prep_pc,        \* "off" | "start" | "done" | "done_fcs"
    prep_text,      \* the message, as bytes
    prep_port,      \* the number in the transmit port's name
    prep_frames,    \* the frames prepare_data returned
    prep_bodies,    \* per frame, the bytes that went into the byte stuffing
    \* --- get_sec_ded_hamming_params on its own ---
    par_pc,         \* "off" | "start" | "done"
    par_m,          \* data_bits_count
    par_result,     \* <<total_parity_bits, total_code_length>>
    par_fcs_length, \* (total_parity_bits + 7) // 8
    \* --- on_data_received_1 fed with bytes that hold no frame ---
    trim_pc,        \* "off" | "idle"
    trim_lab,       \* 2 | 4: the program whose handler runs
    trim_buffer,    \* rx_buffer_1
    trim_appended,  \* rx_buffer_1 right after the extend of the last call
    trim_calls,     \* calls of the handler so far
    \* --- the two endpoints of 4_LAB side by side ---
    pair_pc,        \* "off" | "on"
    rx_buffer_2,    \* rx_buffer_2
    output_2,       \* the packets on_data_received_2 showed
    fed_1,          \* the data_bytes of the calls of on_data_received_1
    fed_2,          \* the data_bytes of the calls of on_data_received_2
    pair_tx,        \* 0 | 1 | 2: whose transmit_with_csma_cd is running
    pair_collision_count,   \* [1..2 -> Nat]: collision_count of the call
    pair_retry_count,       \* [1..2 -> Nat]: retry_count of the call
    pair_events,    \* [1..2 -> <<collisions, write errors>>] of the call
    pair_transmits, \* calls of transmit_with_csma_cd so far
    \* --- send_jam_signal on its own and in the collision branch ---
    jam_pc,         \* "off" | "ready"
    jam_port,       \* self.port: "absent" | "closed" | "open"
    jam_data,       \* the bytes written to the port so far
    jam_before,     \* jam_data when the last send_jam_signal was entered
    jam_write_ok,   \* FALSE when port.write raised in the last call
    jam_raised,     \* TRUE when an exception left send_jam_signal
    jam_collisions, \* collisions the transmit loop detected
    jam_bursts,     \* jam bursts written for them
    jam_calls,      \* calls of send_jam_signal so far
    \* --- the scan loop of on_data_received, one iteration at a time ---
    scan_pc,        \* "idle" | "loop": inside the while True loop
    scan_lab,       \* 2 | 4: whose on_data_received_1 runs
    scan_buffer,    \* self.rx_buffer_1
    scan_output,    \* payloads appended to output_text_tab2
    scan_iters,     \* iterations of the loop in the current call
    scan_calls,     \* calls of on_data_received_1 so far
    \* --- 2_LAB: one payload prepared, written and read back ---
    rt_pc,          \* "start" | "written" | "read"
    rt_payload,     \* the ten bytes of the chunk
    rt_frame,       \* the frame prepare_data made of it
    rt_line,        \* bytes written to the port and not yet read
    rt_buffer,      \* self.rx_buffer_1 of the receiving side
    rt_output,      \* unstuffed_data of every frame the receiver took
    \* --- generate_backoff_time on its own ---
    bo_pc,          \* "off" | "start" | "done"
    bo_collisions,  \* the collision_count argument
    backoff_time    \* the value returned, in ms

hammingVars == <<hpc, data_bits, encoded_bits, flipped, decoded, decoded_4>>

stuffVars == <<spc, chunk, stuffed_data, unstuffed_data>>

lab3Vars == <<lab3_pc, lab3_sent, lab3_line, lab3_rx_buffer, lab3_output>>

txVars == <<tx_pc, tx_data, tx_i, collision_count, retry_count, tx_result,
            line, tx_written, tx_attempts, tx_seen, tx_aborts>>

linkVars == <<tx_frames, sends, sent_ok, rx_buffer_1, output_text>>

endpointVars == <<ports_open, stop_requested, tx_message, tx_calls>>

lab4Vars == <<txVars, linkVars, endpointVars>>

feedVars == <<feed_mode, feed_payloads, feed_stream, feed_pending>>

workerVars == <<w_pc, is_running, w_byte, w_line, w_emitted, rx_port_open,
                dc_pc, reads_after_stop, signals_after_stop, w_read,
                read_failed, tx_port_1_open, is_connected>>

prepVars == <<prep_pc, prep_text, prep_port, prep_frames, prep_bodies>>

backoffVars == <<bo_pc, bo_collisions, backoff_time>>

paramVars == <<par_pc, par_m, par_result, par_fcs_length>>

trimVars == <<trim_pc, trim_lab, trim_buffer, trim_appended, trim_calls>>

pairVars == <<pair_pc, rx_buffer_2, output_2, fed_1, fed_2, pair_tx,
              pair_collision_count, pair_retry_count, pair_events,
              pair_transmits>>

jamVars == <<jam_pc, jam_port, jam_data, jam_before, jam_write_ok, jam_raised,
             jam_collisions, jam_bursts, jam_calls>>

scanVars == <<scan_pc, scan_lab, scan_buffer, scan_output, scan_iters,
              scan_calls>>

rtVars == <<rt_pc, rt_payload, rt_frame, rt_line, rt_buffer, rt_output>>

extraVars == <<scanVars, rtVars>>

unitVars == <<paramVars, trimVars, pairVars, jamVars, extraVars>>

harnessVars == <<feedVars, workerVars, prepVars, backoffVars, unitVars>>

vars == <<hammingVars, stuffVars, lab3Vars, lab4Vars, harnessVars>>

----------------------------------------------------------------------------
(* Each specification below runs one part of the program; the variables of *)
(* the other parts then rest at these values.                              *)

HammingIdle ==
    /\ hpc = "off"
    /\ data_bits = <<>>
    /\ encoded_bits = <<>>
    /\ flipped = {}
    /\ decoded = <<>>
    /\ decoded_4 = <<>>

StuffIdle ==
    /\ spc = "off"
    /\ chunk = <<>>
    /\ stuffed_data = <<>>
    /\ unstuffed_data = <<>>

Lab3Idle ==
    /\ lab3_pc = "off"
    /\ lab3_sent = <<>>
    /\ lab3_line = <<>>
    /\ lab3_rx_buffer = <<>>
    /\ lab3_output = <<>>

TxIdle ==
    /\ tx_pc = "idle"
    /\ tx_data = <<>>
    /\ tx_i = 0
    /\ collision_count = 0
    /\ retry_count = 0
    /\ tx_result = "none"
    /\ line = <<>>
    /\ tx_written = <<>>
    /\ tx_attempts = 0
    /\ tx_seen = {}
    /\ tx_aborts = {}

LinkIdle ==
    /\ tx_frames = <<>>
    /\ sends = 0
    /\ sent_ok = <<>>
    /\ rx_buffer_1 = <<>>
    /\ output_text = <<>>

\* the endpoint after connect_ports_1, with nothing sent yet
EndpointIdle ==
    /\ ports_open = TRUE
    /\ stop_requested = FALSE
    /\ tx_message = <<>>
    /\ tx_calls = <<>>

Lab4Idle == TxIdle /\ LinkIdle /\ EndpointIdle

FeedIdle ==
    /\ feed_mode = "off"
    /\ feed_payloads = <<>>
    /\ feed_stream = <<>>
    /\ feed_pending = <<>>

WorkerIdle ==
    /\ w_pc = "off"
    /\ is_running = FALSE
    /\ w_byte = -1
    /\ w_line = <<>>
    /\ w_emitted = <<>>
    /\ rx_port_open = FALSE
    /\ dc_pc = "none"
    /\ reads_after_stop = 0
    /\ signals_after_stop = 0
    /\ w_read = <<>>
    /\ read_failed = FALSE
    /\ tx_port_1_open = FALSE
    /\ is_connected = FALSE

PrepIdle ==
    /\ prep_pc = "off"
    /\ prep_text = <<>>
    /\ prep_port = 0
    /\ prep_frames = <<>>
    /\ prep_bodies = <<>>

BackoffIdle ==
    /\ bo_pc = "off"
    /\ bo_collisions = 0
    /\ backoff_time = 0

ParamIdle ==
    /\ par_pc = "off"
    /\ par_m = 0
    /\ par_result = <<>>
    /\ par_fcs_length = 0

TrimIdle ==
    /\ trim_pc = "off"
    /\ trim_lab = 0
    /\ trim_buffer = <<>>
    /\ trim_appended = <<>>
    /\ trim_calls = 0

PairIdle ==
    /\ pair_pc = "off"
    /\ rx_buffer_2 = <<>>
    /\ output_2 = <<>>
    /\ fed_1 = <<>>
    /\ fed_2 = <<>>
    /\ pair_tx = 0
    /\ pair_collision_count = <<0, 0>>
    /\ pair_retry_count = <<0, 0>>
    /\ pair_events = <<<<0, 0>>, <<0, 0>>>>
    /\ pair_transmits = 0

JamIdle ==
    /\ jam_pc = "off"
    /\ jam_port = "absent"
    /\ jam_data = <<>>
    /\ jam_before = <<>>
    /\ jam_write_ok = TRUE
    /\ jam_raised = FALSE
    /\ jam_collisions = 0
    /\ jam_bursts = 0
    /\ jam_calls = 0

ScanIdle ==
    /\ scan_pc = "off"
    /\ scan_lab = 0
    /\ scan_buffer = <<>>
    /\ scan_output = <<>>
    /\ scan_iters = 0
    /\ scan_calls = 0

RtIdle ==
    /\ rt_pc = "off"
    /\ rt_payload = <<>>
    /\ rt_frame = <<>>
    /\ rt_line = <<>>
    /\ rt_buffer = <<>>
    /\ rt_output = <<>>

ExtraIdle == ScanIdle /\ RtIdle

UnitIdle == ParamIdle /\ TrimIdle /\ PairIdle /\ JamIdle /\ ExtraIdle

HarnessIdle == FeedIdle /\ WorkerIdle /\ PrepIdle /\ BackoffIdle /\ UnitIdle

----------------------------------------------------------------------------
(* Bounds of the model *)

\* longest data vector given to the Hamming codec
MaxDataBits == 5

\* longest byte sequence given to the stuffing harness
MaxStuffLen == 4

\* longest text (in bytes) a user sends
MaxMsgLen == 1

\* longest frame given to transmit_with_csma_cd on its own
MaxFrameLen == 3

\* a write blocks while MaxLine bytes wait on the line
MaxLine == 1

\* frames of the message fed to on_data_received_1 on its own
MaxFeedFrames == 2

\* chunks of the longest message of the sending endpoint on its own
MaxChunks == 2

\* bytes waiting on the receive port of the worker on its own
MaxWorkerBytes == 3

\* letters between the first and the last byte of a message given to
\* prepare_data on its own
MaxFill == 20

\* largest collision_count given to generate_backoff_time on its own
MaxCollisionCount == 12

\* longest run of bytes without a flag handed to on_data_received_1 at once
MaxJunk == 101

\* calls of on_data_received_1 in the buffer harness
MaxTrimCalls == 3

\* calls of the receive handlers of the two endpoints together
MaxPairCalls == 3

\* calls of transmit_with_csma_cd of the two endpoints together
MaxPairTransmits == 2

\* retries of one transmit_with_csma_cd call next to the other endpoint
MaxPairRetries == 2

\* bytes in the port before the first jam signal
MaxJamData == 2

\* calls of send_jam_signal in the jam harness
MaxJamCalls == 3

\* leading bytes of the 2_LAB payload that range over the reserved bytes
MaxReservedPrefix == 4

\* calls of on_data_received_1 in the scan loop harness
MaxScanCalls == 2

\* largest data_bits_count given to get_sec_ded_hamming_params
MaxParamBits == 130

\* bytes of a message handed to prepare_data of 3_LAB
MaxFcsText == 2

\* send_data calls on the CSMA/CD link
MaxSends == 1

\* aborted attempts (collisions, write errors) per frame on the CSMA/CD link
MaxAborts == 1

\* apply_bit_corruption draws its byte index among the first
\* MaxCorruptBytes bytes of the chunk
MaxCorruptBytes == 2

----------------------------------------------------------------------------
(* Integer helpers for Python's bit operators *)

RECURSIVE Xor(_, _)
\* a ^ b on non-negative integers
Xor(a, b) ==
    IF a = 0 THEN b
    ELSE IF b = 0 THEN a
    ELSE ((a + b) % 2) + 2 * Xor(a \div 2, b \div 2)

\* (p >> i) & 1
BitOf(p, i) == (p \div (2 ^ i)) % 2

RECURSIVE IsPowerOfTwo(_)
\* (pos & (pos - 1)) == 0, for pos >= 1
IsPowerOfTwo(pos) ==
    IF pos = 1 THEN TRUE
    ELSE IF pos % 2 = 1 THEN FALSE
    ELSE IsPowerOfTwo(pos \div 2)

RECURSIVE BitLength(_)
\* the number of powers of two in 1..pos (pos.bit_length())
BitLength(pos) == IF pos = 0 THEN 0 ELSE 1 + BitLength(pos \div 2)

\* a function over 1..n as an explicit sequence
AsSeq(f) == IF DOMAIN f = {} THEN <<>> ELSE SubSeq(f, 1, Len(f))

\* [0] * n (empty for n <= 0)
Zeros(n) == IF n <= 0 THEN <<>> ELSE AsSeq([k \in 1..n |-> 0])

\* all bit vectors of length 1..maxLen
BitVectors(maxLen) == UNION {[1..k -> {0, 1}] : k \in 1..maxLen}

----------------------------------------------------------------------------
(* Hamming SEC-DED codec, 3_LAB/main_app.py *)

RECURSIVE StandardParityLoop(_, _)
\* while (2**r) < (m + r + 1): r += 1
StandardParityLoop(m, r) ==
    IF 2 ^ r < m + r + 1 THEN StandardParityLoop(m, r + 1) ELSE r

\* parameters that leave out the overall parity bit
get_hamming_params_no_overall(data_bits_count) ==
    LET standard_parity_bits == StandardParityLoop(data_bits_count, 0)
    IN  <<standard_parity_bits, data_bits_count + standard_parity_bits>>

\* get_sec_ded_hamming_params: <<total_parity_bits, total_code_length>>
get_sec_ded_hamming_params(data_bits_count) ==
    LET standard_parity_bits == StandardParityLoop(data_bits_count, 0)
        total_parity_bits == standard_parity_bits + 1
    IN  <<total_parity_bits, data_bits_count + total_parity_bits>>

\* the number of positions 1..pos that are not powers of two
DataPositionsUpTo(pos) == pos - BitLength(pos)

\* the first loop of calculate_hamming_parity_bits: data bits go, in order,
\* to the positions 1..n that are not powers of two, while data remains
\* (data_idx at a position is the number of data positions before it)
PlaceDataBits(code, data) ==
    AsSeq([pos_1idx \in 1..Len(code) |->
        LET data_idx == DataPositionsUpTo(pos_1idx - 1)
        IN  IF ~IsPowerOfTwo(pos_1idx) /\ data_idx < Len(data)
            THEN data[data_idx + 1]
            ELSE code[pos_1idx]])

\* XOR of the bits at the positions whose i-th bit is set, except
\* parity_pos: 1 when an odd number of them is set
ParityOfCovered(code, i, parity_pos) ==
    Cardinality({bit_pos \in 1..Len(code) :
                    /\ BitOf(bit_pos, i) = 1
                    /\ bit_pos # parity_pos
                    /\ code[bit_pos] = 1}) % 2

\* for i in range(standard_parity_bits): set position 2^i when it is <= n
\* (no parity position is covered by another one, so each is computed from
\* the code word as the data loop left it)
SetParityBits(code, standard_parity_bits) ==
    AsSeq([pos \in 1..Len(code) |->
        IF \E i \in 0..(standard_parity_bits - 1) : pos = 2 ^ i
        THEN LET i == CHOOSE j \in 0..(standard_parity_bits - 1) : pos = 2 ^ j
             IN  ParityOfCovered(code, i, pos)
        ELSE code[pos]])

\* XOR of bits[1..upto]: 1 when an odd number of them is set
XorBits(bits, upto) == Cardinality({k \in 1..upto : bits[k] = 1}) % 2

calculate_hamming_parity_bits(data) ==
    LET m == Len(data)
        standard_parity_bits == StandardParityLoop(m, 0)
        n == m + standard_parity_bits + 1
        zeros == Zeros(n)
        placed == PlaceDataBits(zeros, data)
        withParity == SetParityBits(placed, standard_parity_bits)
        overall_parity == XorBits(withParity, n - 1)
    IN  [withParity EXCEPT ![n] = overall_parity]

hamming_encode(data) == calculate_hamming_parity_bits(data)

RECURSIVE SyndromeOver(_, _, _)
\* for i in range(n): if encoded_bits[i]: syndrome ^= (i + 1)
\* the XOR of the set positions lo..hi (1-indexed), halving the range
SyndromeOver(bits, lo, hi) ==
    IF lo > hi THEN 0
    ELSE IF lo = hi THEN (IF bits[lo] = 1 THEN lo ELSE 0)
    ELSE LET mid == (lo + hi) \div 2
         IN  Xor(SyndromeOver(bits, lo, mid), SyndromeOver(bits, mid + 1, hi))

Syndrome(bits, upto) == SyndromeOver(bits, 1, upto)

RECURSIVE ExtractDataBitsOver(_, _, _)
\* the bits at the positions lo..hi that are neither a power of two nor the
\* last one, in order (halving the range)
ExtractDataBitsOver(bits, lo, hi) ==
    IF lo > hi THEN <<>>
    ELSE IF lo = hi
         THEN (IF ~IsPowerOfTwo(lo) /\ lo # Len(bits) THEN <<bits[lo]>> ELSE <<>>)
    ELSE LET mid == (lo + hi) \div 2
         IN  ExtractDataBitsOver(bits, lo, mid)
                \o ExtractDataBitsOver(bits, mid + 1, hi)

ExtractDataBits(bits) == ExtractDataBitsOver(bits, 1, Len(bits))

\* hamming_decode: <<data_bits, error_corrected, double_error>>
hamming_decode(bits) ==
    LET n == Len(bits)
        syndrome == Syndrome(bits, n)
        total_parity == XorBits(bits, n)
    IN  IF syndrome = 0 /\ total_parity = 0
        THEN <<ExtractDataBits(bits), FALSE, FALSE>>
        ELSE IF syndrome # 0 /\ total_parity = 1
        THEN LET corrected_bits ==
                    IF syndrome <= n
                    THEN [bits EXCEPT ![syndrome] = 1 - bits[syndrome]]
                    ELSE bits
             IN  <<ExtractDataBits(corrected_bits), TRUE, FALSE>>
        ELSE <<ExtractDataBits(bits), FALSE, TRUE>>

RECURSIVE ExtractDataBitsOver4(_, _, _)
\* 4_LAB/hamming_functions.py: the bits at the positions lo..hi that are
\* not a power of two, in order (halving the range)
ExtractDataBitsOver4(bits, lo, hi) ==
    IF lo > hi THEN <<>>
    ELSE IF lo = hi
         THEN (IF ~IsPowerOfTwo(lo) THEN <<bits[lo]>> ELSE <<>>)
    ELSE LET mid == (lo + hi) \div 2
         IN  ExtractDataBitsOver4(bits, lo, mid)
                \o ExtractDataBitsOver4(bits, mid + 1, hi)

ExtractDataBits4(bits) == ExtractDataBitsOver4(bits, 1, Len(bits))

\* hamming_decode of 4_LAB/hamming_functions.py:
\* <<data_bits, error_corrected, double_error>>
hamming_decode_4(bits) ==
    LET n == Len(bits)
        syndrome == Syndrome(bits, n)
        total_parity == XorBits(bits, n)
    IN  IF syndrome = 0 /\ total_parity = 0
        THEN <<ExtractDataBits4(bits), FALSE, FALSE>>
        ELSE IF syndrome # 0 /\ total_parity = 1
        THEN LET corrected_bits ==
                    IF syndrome <= n
                    THEN [bits EXCEPT ![syndrome] = 1 - bits[syndrome]]
                    ELSE bits
             IN  <<ExtractDataBits4(corrected_bits), TRUE, FALSE>>
        ELSE <<ExtractDataBits4(bits), FALSE, TRUE>>

----------------------------------------------------------------------------
(* Framing constants, CommunicatorApp.__init__ *)

N == 9
DATA_LENGTH == N + 1
FLAG_START == 64                \* b'@'
FLAG_END == 97 + N - 1          \* bytes([ord('a') + N - 1]) = b'i'
FLAG == <<FLAG_START, FLAG_END>>
DEST_ADDR == 0
ESC == 27                       \* b'\x1B'
JAM == 255                      \* b'\xFF'

\* the keys of STUFF_MAP
ReservedBytes == {FLAG_START, FLAG_END, ESC}

\* a stuffing map that puts two escape bytes before a reserved byte
StuffMapTwoEsc(b) == <<ESC, ESC, b>>

\* STUFF_MAP[b], for a reserved byte b
STUFF_MAP(b) == <<ESC, b>>

\* the keys of UNSTUFF_MAP: the values of STUFF_MAP
UnstuffKeys == {STUFF_MAP(b) : b \in ReservedBytes}

\* UNSTUFF_MAP[sequence], for a key
UNSTUFF_MAP(sequence) == CHOOSE b \in ReservedBytes : STUFF_MAP(b) = sequence

\* the bytes the model sends: the reserved bytes, NUL, 'A' and the jam byte
ByteAlphabet == {FLAG_START, FLAG_END, ESC, 0, 65, JAM}

\* all sequences over S of length lo..hi
SeqsOf(S, lo, hi) == UNION {[1..k -> S] : k \in lo..hi}

\* s[from .. ], 0-based like a Python slice s[from:]
SliceFrom(s, from) == IF from >= Len(s) THEN <<>> ELSE SubSeq(s, from + 1, Len(s))

\* s[from : to], 0-based, for 0 <= from
Slice(s, from, to) ==
    LET hi == IF to > Len(s) THEN Len(s) ELSE to
    IN  IF from >= hi THEN <<>> ELSE SubSeq(s, from + 1, hi)

RECURSIVE StuffNoEscEsc(_)
StuffNoEscEsc(bytes) ==
    IF bytes = <<>> THEN <<>>
    ELSE IF Head(bytes) \in ReservedBytes \ {ESC}
         THEN STUFF_MAP(Head(bytes)) \o StuffNoEscEsc(Tail(bytes))
         ELSE <<Head(bytes)>> \o StuffNoEscEsc(Tail(bytes))

RECURSIVE StuffFlagStartOnly(_)
StuffFlagStartOnly(bytes) ==
    IF bytes = <<>> THEN <<>>
    ELSE IF Head(bytes) \in ReservedBytes \ {FLAG_END}
         THEN STUFF_MAP(Head(bytes)) \o StuffFlagStartOnly(Tail(bytes))
         ELSE <<Head(bytes)>> \o StuffFlagStartOnly(Tail(bytes))

RECURSIVE StuffBytes(_)
\* the stuffing loop of prepare_data: a reserved byte becomes ESC + byte
StuffBytes(bytes) ==
    IF bytes = <<>> THEN <<>>
    ELSE IF Head(bytes) \in ReservedBytes
         THEN STUFF_MAP(Head(bytes)) \o StuffBytes(Tail(bytes))
         ELSE <<Head(bytes)>> \o StuffBytes(Tail(bytes))

RECURSIVE UnstuffSpan(_, _, _)
\* the iterations of the de-stuffing loop of on_data_received that start at
\* the 0-based indices i <= index < hi of raw_data: the bytes they append and
\* the index the loop is at afterwards (the span is halved, which keeps the
\* evaluation shallow on long buffers)
UnstuffSpan(raw_data, i, hi) ==
    IF i >= hi THEN [out |-> <<>>, next |-> i]
    ELSE IF hi - i = 1
    THEN IF i + 1 < Len(raw_data)
         THEN LET sequence == <<raw_data[i + 1], raw_data[i + 2]>>
              IN  IF sequence \in UnstuffKeys
                  THEN [out |-> <<UNSTUFF_MAP(sequence)>>, next |-> i + 2]
                  ELSE [out |-> <<raw_data[i + 1]>>, next |-> i + 1]
         ELSE [out |-> <<raw_data[i + 1]>>, next |-> i + 1]
    ELSE LET mid == (i + hi) \div 2
             first == UnstuffSpan(raw_data, i, mid)
             second == UnstuffSpan(raw_data, first.next, hi)
         IN  [out |-> first.out \o second.out, next |-> second.next]

\* the de-stuffing loop of on_data_received, from 0-based index i of raw_data
UnstuffFrom(raw_data, i) == UnstuffSpan(raw_data, i, Len(raw_data)).out

UnstuffBytes(raw_data) == UnstuffFrom(raw_data, 0)

----------------------------------------------------------------------------
(* Harness of the stuffing transform: stuff a byte sequence, de-stuff it. *)

StuffInit ==
    /\ spc = "start"
    /\ chunk \in SeqsOf(ByteAlphabet, 0, MaxStuffLen)
    /\ stuffed_data = <<>>
    /\ unstuffed_data = <<>>
    /\ HammingIdle
    /\ Lab3Idle
    /\ Lab4Idle
    /\ HarnessIdle

Stuff ==
    /\ spc = "start"
    /\ stuffed_data' = StuffBytes(chunk)
    /\ spc' = "stuffed"
    /\ UNCHANGED <<chunk, unstuffed_data, hammingVars, lab3Vars, lab4Vars, harnessVars>>

Unstuff ==
    /\ spc = "stuffed"
    /\ unstuffed_data' = UnstuffBytes(stuffed_data)
    /\ spc' = "unstuffed"
    /\ UNCHANGED <<chunk, stuffed_data, hammingVars, lab3Vars, lab4Vars, harnessVars>>

StuffNext == Stuff \/ Unstuff

SpecStuff == StuffInit /\ [][StuffNext]_vars

\* C4: for every byte sequence x, de-stuffing the stuffed form of x
\* returns exactly x.
C4_DestuffStuff ==
    spc = "unstuffed" => unstuffed_data = chunk

\* a sequence with every reserved byte, stuffed to twice its length and
\* de-stuffed
C4_Witness ==
    /\ spc = "unstuffed"
    /\ Len(chunk) = MaxStuffLen
    /\ ReservedBytes \subseteq {chunk[k] : k \in 1..Len(chunk)}
    /\ Len(stuffed_data) = Len(chunk) + 3

----------------------------------------------------------------------------
(* The FCS variant, 3_LAB/main_app.py: calculate_fcs, verify_fcs,          *)
(* apply_bit_corruption, prepare_data, on_data_received.                   *)

\* the bytes of the texts the model sends
TextAlphabet == {FLAG_START, FLAG_END, ESC, 65, 72}

\* the numbers in the names of the transmit ports (COM5, COM300)
SourcePorts == {5, 300}

\* bytes -> bits, MSB first: for i in range(7, -1, -1): (byte >> i) & 1
BytesToBits(bytes) ==
    AsSeq([k \in 1..(8 * Len(bytes)) |->
        BitOf(bytes[((k - 1) \div 8) + 1], 7 - ((k - 1) % 8))])

RECURSIVE PackByte(_, _, _)
\* byte_val |= bits[i + j] << (7 - j), for j in range(min(8, len(bits) - i))
PackByte(bits, i, j) ==
    IF j >= 8 \/ i + j >= Len(bits) THEN 0
    ELSE bits[i + j + 1] * (2 ^ (7 - j)) + PackByte(bits, i, j + 1)

\* bits -> bytes, eight at a time, a last partial byte left-aligned
BitsToBytes(bits) ==
    AsSeq([k \in 1..((Len(bits) + 7) \div 8) |-> PackByte(bits, 8 * (k - 1), 0)])

\* __init__: the number of parity bits for DATA_LENGTH * 8 data bits
fcs_bits_count == StandardParityLoop(DATA_LENGTH * 8, 0) + 1

FCS_LENGTH == (fcs_bits_count + 7) \div 8

\* calculate_fcs: the packed codeword, padded and cut to FCS_LENGTH bytes
calculate_fcs(data_bytes) ==
    LET encoded == hamming_encode(BytesToBits(data_bytes))
        fcs_bytes == BitsToBytes(encoded)
        padded == fcs_bytes \o Zeros(FCS_LENGTH - Len(fcs_bytes))
    IN  Slice(padded, 0, FCS_LENGTH)

\* the number of positions 1..pos that are powers of two
PowerPositionsUpTo(pos) == BitLength(pos)

\* verify_fcs: the FCS bits go, in order, to the power-of-two positions
\* (fcs_idx at a position is the number of such positions before it)
FillParityPositions(code, fcs_bits) ==
    AsSeq([pos \in 1..Len(code) |->
        LET fcs_idx == PowerPositionsUpTo(pos - 1)
        IN  IF IsPowerOfTwo(pos) /\ fcs_idx < Len(fcs_bits)
            THEN fcs_bits[fcs_idx + 1]
            ELSE code[pos]])

\* verify_fcs: <<corrected_bytes, corrected, double_error>>
verify_fcs(received_data, received_fcs) ==
    LET bits == BytesToBits(received_data)
        fcs_bits == BytesToBits(received_fcs)
        total_length == get_sec_ded_hamming_params(Len(bits))[2]
        zeros == Zeros(total_length)
        withData == PlaceDataBits(zeros, bits)
        received_codeword == FillParityPositions(withData, fcs_bits)
        result == hamming_decode(received_codeword)
    IN  <<BitsToBytes(result[1]), result[2], result[3]>>

\* the bit flips apply_bit_corruption may draw: none, one, or two distinct
\* <<byte_idx, bit_idx>>
BitChoices == (0..(MaxCorruptBytes - 1)) \X (0..7)

Corruptions ==
    {{}} \cup {{f1, f2} : f1 \in BitChoices, f2 \in BitChoices}

\* apply_bit_corruption with the drawn flips: data[byte_idx] ^= (1 << bit_idx)
apply_bit_corruption(data_bytes, flips) ==
    AsSeq([k \in 1..Len(data_bytes) |->
        LET mine == {f \in flips : f[1] = k - 1}
            mask == IF mine = {} THEN 0
                    ELSE IF Cardinality(mine) = 1
                         THEN 2 ^ ((CHOOSE f \in mine : TRUE)[2])
                         ELSE LET f1 == CHOOSE f \in mine : TRUE
                                  f2 == CHOOSE f \in mine : f # f1
                              IN  2 ^ f1[2] + 2 ^ f2[2]
        IN  Xor(data_bytes[k], mask)])

\* a source address that wraps an out-of-range port number instead of
\* falling back to 0
SourceAddrModulo(source_port_num) == source_port_num % 256

\* bytes([source_port_num]), b'\x00' on ValueError
SourceAddr(source_port_num) ==
    IF source_port_num \in 0..255 THEN source_port_num ELSE 0

PadChunkNone(c) == c

\* chunk.ljust(DATA_LENGTH, b'\x00')
PadChunk(c) == c \o Zeros(DATA_LENGTH - Len(c))

\* data_bytes[i:i + DATA_LENGTH] for i in range(0, len(data_bytes), DATA_LENGTH)
Chunks(data_bytes) ==
    [k \in 1..((Len(data_bytes) + DATA_LENGTH - 1) \div DATA_LENGTH) |->
        Slice(data_bytes, (k - 1) * DATA_LENGTH, k * DATA_LENGTH)]

\* prepare_data of 3_LAB: one frame per chunk; corruption[k] is the draw of
\* apply_bit_corruption for chunk k
prepare_data_fcs(data_bytes, source_port_num, corruption) ==
    LET chunks == Chunks(data_bytes)
    IN  [k \in 1..Len(chunks) |->
            LET padded == PadChunk(chunks[k])
                fcs == calculate_fcs(padded)
                corrupted_chunk == apply_bit_corruption(padded, corruption[k])
            IN  FLAG \o <<SourceAddr(source_port_num), DEST_ADDR>>
                     \o StuffBytes(corrupted_chunk \o fcs)]

\* data_with_fcs of prepare_data (3_LAB): the corrupted chunk and the FCS of
\* the chunk as it was before the corruption
data_with_fcs(padded, flips) ==
    apply_bit_corruption(padded, flips) \o calculate_fcs(padded)

\* buffer.find(pattern): the least 0-based index of an occurrence, or -1
Find(buffer, pattern) ==
    LET hits == {i \in 0..(Len(buffer) - Len(pattern)) :
                    SubSeq(buffer, i + 1, i + Len(pattern)) = pattern}
    IN  IF hits = {} THEN -1
        ELSE CHOOSE i \in hits : \A j \in hits : i <= j

\* a buffer that is emptied when it holds more than 100 bytes
TrimBufferClear(buffer) == IF Len(buffer) > 100 THEN <<>> ELSE buffer

\* the buffer cut to its last 50 bytes when it holds more than 100
TrimBuffer(buffer) ==
    IF Len(buffer) > 100 THEN SubSeq(buffer, Len(buffer) - 49, Len(buffer))
    ELSE buffer

RECURSIVE ScanFramesFcs(_, _)
\* the while True loop of on_data_received_1 (3_LAB) on the extended buffer:
\* [buffer |-> what is left, output |-> the packets shown]
ScanFramesFcs(buffer, output) ==
    LET start_index == Find(buffer, FLAG)
        min_frame_size == 4 + DATA_LENGTH + FCS_LENGTH
        potential_frame == SliceFrom(buffer, start_index)
        raw_data_with_fcs == SliceFrom(potential_frame, 4)
        unstuffed == UnstuffBytes(raw_data_with_fcs)
        received_data == Slice(unstuffed, 0, DATA_LENGTH)
        received_fcs == Slice(unstuffed, DATA_LENGTH, DATA_LENGTH + FCS_LENGTH)
        verified == verify_fcs(received_data, received_fcs)
        next_frame_start == start_index + 4 + Len(raw_data_with_fcs)
        rest == IF next_frame_start <= Len(buffer)
                THEN SliceFrom(buffer, next_frame_start)
                ELSE <<>>
        packet == [source_addr |-> potential_frame[3],
                   data |-> verified[1],
                   corrected |-> verified[2],
                   double_error |-> verified[3]]
    IN  IF start_index = -1
        THEN [buffer |-> TrimBuffer(buffer), output |-> output]
        ELSE IF Len(buffer) - start_index < min_frame_size
        THEN [buffer |-> buffer, output |-> output]
        ELSE IF Len(unstuffed) < DATA_LENGTH + FCS_LENGTH
        THEN [buffer |-> buffer, output |-> output]
        ELSE ScanFramesFcs(rest, Append(output, packet))

\* on_data_received_1 of 3_LAB
on_data_received_fcs(buffer, data_bytes) ==
    ScanFramesFcs(buffer \o data_bytes, <<>>)

Lab3Init ==
    /\ lab3_pc = "idle"
    /\ lab3_sent = <<>>
    /\ lab3_line = <<>>
    /\ lab3_rx_buffer = <<>>
    /\ lab3_output = <<>>
    /\ HammingIdle
    /\ StuffIdle
    /\ Lab4Idle
    /\ HarnessIdle

\* send_data_1 of 3_LAB: prepare the frames and write each to port_tx
Lab3SendData ==
    /\ lab3_pc = "idle"
    /\ \E text \in SeqsOf(TextAlphabet, 1, MaxMsgLen), port \in SourcePorts :
       \E corruption \in [1..Len(Chunks(text)) -> Corruptions] :
          LET frames == prepare_data_fcs(text, port, corruption)
          IN  /\ lab3_sent' = <<port, PadChunk(Chunks(text)[1]), corruption[1]>>
              /\ lab3_line' = lab3_line \o frames[1]
    /\ lab3_pc' = "sent"
    /\ UNCHANGED <<lab3_rx_buffer, lab3_output, hammingVars, stuffVars, lab4Vars, harnessVars>>

\* SerialWorker.run of 3_LAB reads one byte and emits data_received, whose
\* slot is on_data_received
Lab3Receive ==
    /\ lab3_line # <<>>
    /\ LET r == on_data_received_fcs(lab3_rx_buffer, <<Head(lab3_line)>>)
       IN  /\ lab3_rx_buffer' = r.buffer
           /\ lab3_output' = lab3_output \o r.output
    /\ lab3_line' = Tail(lab3_line)
    /\ UNCHANGED <<lab3_pc, lab3_sent, hammingVars, stuffVars, lab4Vars, harnessVars>>

Lab3Next == Lab3SendData \/ Lab3Receive

SpecLab3 == Lab3Init /\ [][Lab3Next]_vars

\* the frame has been sent and every byte of it has been received
Lab3Done == lab3_pc = "sent" /\ lab3_line = <<>>

\* C5: in the FCS variant, with no bit corruption injected, the receiver
\* yields source address a, payload p and status Valid (corrected = false,
\* double_error = false) for the frame built from p.
C5_FcsRoundTrip ==
    (Lab3Done /\ lab3_sent[3] = {})
        => lab3_output = <<[source_addr |-> SourceAddr(lab3_sent[1]),
                            data |-> lab3_sent[2],
                            corrected |-> FALSE,
                            double_error |-> FALSE]>>

\* C6: in the FCS variant, after a corruption of one or two bits of the
\* data field, the receiver never delivers a payload different from p
\* with an unflagged status (corrected = false and double_error = false).
C6_NoSilentCorruption ==
    (lab3_pc = "sent" /\ Cardinality(lab3_sent[3]) \in {1, 2})
        => \A k \in 1..Len(lab3_output) :
              lab3_output[k].data # lab3_sent[2]
                  => (lab3_output[k].corrected \/ lab3_output[k].double_error)

----------------------------------------------------------------------------
(* CSMACDTransmitter, 4_LAB/main_app.py.  listen_channel and               *)
(* detect_collision draw at random: every outcome is possible at every     *)
(* call.  port.write either succeeds or raises.  The sleeps are steps of   *)
(* their own; their lengths (10 ms, the backoff time, 0.1 s) change no     *)
(* state.                                                                  *)

max_retries == 16

\* b'\xFF' * 4
JamBurst == <<JAM, JAM, JAM, JAM>>

RetryBudgetOpen(retries) == retries <= max_retries

\* while retry_count < self.max_retries
RetryBudgetLeft(retries) == retries < max_retries

\* the observer's count of attempts stops one past the retry budget
CountAttempt(attempts) ==
    IF attempts <= max_retries THEN attempts + 1 ELSE attempts

\* a jam signal that reaches the port even when the write raises
send_jam_signal_always(port, write_ok) == port \o JamBurst

\* send_jam_signal: the burst is written unless the write raises, which is
\* caught and printed
send_jam_signal(port, write_ok) == IF write_ok THEN port \o JamBurst ELSE port

\* the other parts of the program, at rest while the transmitter runs
TxFrame ==
    UNCHANGED <<hammingVars, stuffVars, lab3Vars, linkVars, endpointVars,
                harnessVars>>

\* listen_channel() returned True: sleep 10 ms, then continue
ListenBusy ==
    /\ tx_pc = "loop"
    /\ RetryBudgetLeft(retry_count)
    /\ tx_pc' = "poll_wait"
    /\ tx_seen' = tx_seen \cup {"busy"}
    /\ UNCHANGED <<tx_data, tx_i, collision_count, retry_count, tx_result,
                   line, tx_written, tx_attempts, tx_aborts>>
    /\ TxFrame

PollWaitDone ==
    /\ tx_pc = "poll_wait"
    /\ tx_pc' = "loop"
    /\ UNCHANGED <<tx_data, tx_i, collision_count, retry_count, tx_result,
                   line, tx_written, tx_attempts, tx_seen, tx_aborts>>
    /\ TxFrame

ListenClearResume ==
    /\ tx_pc = "loop"
    /\ RetryBudgetLeft(retry_count)
    /\ tx_pc' = "sending"
    /\ tx_written' = <<>>
    /\ tx_attempts' = CountAttempt(tx_attempts)
    /\ UNCHANGED <<tx_data, tx_i, collision_count, retry_count, tx_result,
                   line, tx_seen, tx_aborts>>
    /\ TxFrame

\* listen_channel() returned False: the for loop over data starts at byte 0
ListenClear ==
    /\ tx_pc = "loop"
    /\ RetryBudgetLeft(retry_count)
    /\ tx_pc' = "sending"
    /\ tx_i' = 0
    /\ tx_written' = <<>>
    /\ tx_attempts' = CountAttempt(tx_attempts)
    /\ UNCHANGED <<tx_data, collision_count, retry_count, tx_result,
                   line, tx_seen, tx_aborts>>
    /\ TxFrame

\* the bytes of an aborted attempt: a proper prefix of the frame, with or
\* without a jam burst after it, or something else
AbortShape(written, data) ==
    IF \E k \in 0..(Len(data) - 1) : written = SubSeq(data, 1, k) \o JamBurst
    THEN "prefix+jam"
    ELSE IF \E k \in 0..(Len(data) - 1) : written = SubSeq(data, 1, k)
    THEN "prefix"
    ELSE "other"

\* a collision branch that leaves retry_count alone
DetectCollisionUncounted ==
    /\ tx_pc = "sending"
    /\ tx_i < Len(tx_data)
    /\ \E write_ok \in BOOLEAN :
          /\ write_ok => Len(line) < MaxLine
          /\ line' = send_jam_signal(line, write_ok)
          /\ tx_written' = send_jam_signal(tx_written, write_ok)
    /\ collision_count' = collision_count + 1
    /\ tx_aborts' = tx_aborts \cup {<<"collision", AbortShape(tx_written', tx_data)>>}
    /\ tx_pc' = "backoff"
    /\ UNCHANGED <<tx_data, tx_i, retry_count, tx_result, tx_attempts, tx_seen>>
    /\ TxFrame

\* detect_collision() returned True: jam, count, back off
DetectCollision ==
    /\ tx_pc = "sending"
    /\ tx_i < Len(tx_data)
    /\ \E write_ok \in BOOLEAN :
          /\ write_ok => Len(line) < MaxLine
          /\ line' = send_jam_signal(line, write_ok)
          /\ tx_written' = send_jam_signal(tx_written, write_ok)
    /\ collision_count' = collision_count + 1
    /\ retry_count' = retry_count + 1
    /\ tx_aborts' = tx_aborts \cup {<<"collision", AbortShape(tx_written', tx_data)>>}
    /\ tx_pc' = "backoff"
    /\ UNCHANGED <<tx_data, tx_i, tx_result, tx_attempts, tx_seen>>
    /\ TxFrame

\* a backoff after which the frame is sent again without sensing
BackoffDoneNoSense ==
    /\ tx_pc = "backoff"
    /\ tx_pc' = "sending"
    /\ tx_i' = 0
    /\ UNCHANGED <<tx_data, collision_count, retry_count, tx_result,
                   line, tx_written, tx_attempts, tx_seen, tx_aborts>>
    /\ TxFrame

\* time.sleep(backoff_time / 1000.0) is over: break, next round of the loop
BackoffDone ==
    /\ tx_pc = "backoff"
    /\ tx_pc' = "loop"
    /\ UNCHANGED <<tx_data, tx_i, collision_count, retry_count, tx_result,
                   line, tx_written, tx_attempts, tx_seen, tx_aborts>>
    /\ TxFrame

\* detect_collision() returned False and port.write(bytes([byte])) succeeded
WriteByte ==
    /\ tx_pc = "sending"
    /\ tx_i < Len(tx_data)
    /\ Len(line) < MaxLine
    /\ line' = Append(line, tx_data[tx_i + 1])
    /\ tx_written' = Append(tx_written, tx_data[tx_i + 1])
    /\ tx_i' = tx_i + 1
    /\ tx_seen' = tx_seen \cup {"no_collision", "frame_byte"}
    /\ UNCHANGED <<tx_pc, tx_data, collision_count, retry_count, tx_result,
                   tx_attempts, tx_aborts>>
    /\ TxFrame

WriteErrorNotCounted ==
    /\ tx_pc = "sending"
    /\ tx_i < Len(tx_data)
    /\ tx_seen' = tx_seen \cup {"no_collision"}
    /\ tx_aborts' = tx_aborts \cup {<<"write_error", AbortShape(tx_written, tx_data)>>}
    /\ tx_pc' = "error_wait"
    /\ UNCHANGED <<tx_data, tx_i, collision_count, retry_count, tx_result, line,
                   tx_written, tx_attempts>>
    /\ TxFrame

\* detect_collision() returned False and port.write raised: the except
\* clause counts a retry and sleeps 0.1 s
WriteError ==
    /\ tx_pc = "sending"
    /\ tx_i < Len(tx_data)
    /\ retry_count' = retry_count + 1
    /\ tx_seen' = tx_seen \cup {"no_collision"}
    /\ tx_aborts' = tx_aborts \cup {<<"write_error", AbortShape(tx_written, tx_data)>>}
    /\ tx_pc' = "error_wait"
    /\ UNCHANGED <<tx_data, tx_i, collision_count, tx_result, line,
                   tx_written, tx_attempts>>
    /\ TxFrame

ErrorWaitDone ==
    /\ tx_pc = "error_wait"
    /\ tx_pc' = "loop"
    /\ UNCHANGED <<tx_data, tx_i, collision_count, retry_count, tx_result,
                   line, tx_written, tx_attempts, tx_seen, tx_aborts>>
    /\ TxFrame

\* the for loop ended without break: return True
AllBytesSent ==
    /\ tx_pc = "sending"
    /\ tx_i = Len(tx_data)
    /\ tx_result' = "True"
    /\ tx_pc' = "returned"
    /\ UNCHANGED <<tx_data, tx_i, collision_count, retry_count, line,
                   tx_written, tx_attempts, tx_seen, tx_aborts>>
    /\ TxFrame

\* the while condition failed: return False
RetriesExhausted ==
    /\ tx_pc = "loop"
    /\ ~RetryBudgetLeft(retry_count)
    /\ tx_result' = "False"
    /\ tx_pc' = "returned"
    /\ UNCHANGED <<tx_data, tx_i, collision_count, retry_count, line,
                   tx_written, tx_attempts, tx_seen, tx_aborts>>
    /\ TxFrame

transmit_with_csma_cd ==
    \/ ListenBusy
    \/ PollWaitDone
    \/ ListenClear
    \/ DetectCollision
    \/ BackoffDone
    \/ WriteByte
    \/ WriteError
    \/ ErrorWaitDone
    \/ AllBytesSent
    \/ RetriesExhausted

\* a byte leaves the line with nobody assembling frames from it
LineDrain ==
    /\ line # <<>>
    /\ line' = Tail(line)
    /\ UNCHANGED <<tx_pc, tx_data, tx_i, collision_count, retry_count,
                   tx_result, tx_written, tx_attempts, tx_seen, tx_aborts>>
    /\ TxFrame

\* the frames given to the transmitter on its own: the transmitter never
\* looks at a byte's value, so the shortest frame and the longest one, of
\* distinct bytes
TxFrames == {[k \in 1..n |-> 64 + k] : n \in {1, MaxFrameLen}}

\* one call of transmit_with_csma_cd(data)
TxInit ==
    /\ tx_pc = "loop"
    /\ tx_data \in TxFrames
    /\ tx_i = 0
    /\ collision_count = 0
    /\ retry_count = 0
    /\ tx_result = "none"
    /\ line = <<>>
    /\ tx_written = <<>>
    /\ tx_attempts = 0
    /\ tx_seen = {}
    /\ tx_aborts = {}
    /\ LinkIdle
    /\ EndpointIdle
    /\ HarnessIdle
    /\ HammingIdle
    /\ StuffIdle
    /\ Lab3Idle

TxNext == transmit_with_csma_cd \/ LineDrain

\* the sending thread and the line keep running
SpecTx ==
    /\ TxInit
    /\ [][TxNext]_vars
    /\ WF_vars(transmit_with_csma_cd)
    /\ WF_vars(LineDrain)

\* C7: with MAX_RETRIES = 16, when every collision check reports a
\* collision, transmit_with_csma_cd returns False after exactly 16
\* transmission attempts, and no frame byte has been written to the port.
C7_AllCollisionsFail ==
    (tx_pc = "returned" /\ "no_collision" \notin tx_seen)
        => /\ tx_result = "False"
           /\ tx_attempts = 16
           /\ "frame_byte" \notin tx_seen

\* the channel sensed clear sixteen times, each attempt ended by a
\* collision at the first byte
C7_Witness ==
    /\ tx_pc = "returned"
    /\ tx_seen = {}
    /\ collision_count = 16
    /\ tx_result = "False"

\* C8 (as claimed): every call of transmit_with_csma_cd terminates, for
\* every sequence of channel-sense and collision outcomes.
C8_Terminates == <>(tx_pc = "returned")

\* C8 (amended): every call terminates unless the channel is sensed busy
\* for ever: from some point on the call only senses and polls.
C8_TerminatesUnlessBusy ==
    \/ <>(tx_pc = "returned")
    \/ <>[](tx_pc \in {"loop", "poll_wait"})

\* a call that returned False after busy senses, collisions and write
\* errors used up the sixteen retries
C8_Witness ==
    /\ tx_pc = "returned"
    /\ tx_result = "False"
    /\ "busy" \in tx_seen
    /\ retry_count = max_retries
    /\ 0 < collision_count
    /\ collision_count < retry_count

CountersInRange(c, r) == 0 <= c /\ c <= r /\ r <= 16

\* C29: within one transmit_with_csma_cd call, collision_count and
\* retry_count start at 0 and never decrease; a busy sense leaves both
\* unchanged and writes nothing to the port, a collision adds 1 to both, a
\* write exception adds 1 to retry_count only; 0 <= collision_count <=
\* retry_count <= MAX_RETRIES in every reachable state.
C29_CounterSteps ==
    [][/\ CountersInRange(collision_count, retry_count)
       /\ CountersInRange(collision_count', retry_count')
       /\ tx_attempts = 0 => (collision_count = 0 /\ retry_count = 0)
       /\ collision_count' >= collision_count
       /\ retry_count' >= retry_count
       /\ (tx_pc = "loop" /\ tx_pc' = "poll_wait")
             => /\ collision_count' = collision_count
                /\ retry_count' = retry_count
                /\ tx_written' = tx_written
                /\ line' = line
       /\ (tx_pc = "sending" /\ tx_pc' = "backoff")
             => /\ collision_count' = collision_count + 1
                /\ retry_count' = retry_count + 1
       /\ (tx_pc = "sending" /\ tx_pc' = "error_wait")
             => /\ collision_count' = collision_count
                /\ retry_count' = retry_count + 1
       /\ (tx_pc' = tx_pc \/ tx_pc' \in {"loop", "sending", "returned"})
             => /\ collision_count' = collision_count
                /\ retry_count' = retry_count]_vars

\* a call in its last round: busy senses, fifteen retries of which some
\* were write errors, and the sixteenth is a collision
C29_Witness ==
    /\ tx_pc = "backoff"
    /\ "busy" \in tx_seen
    /\ retry_count = 16
    /\ collision_count = 14

\* C30: transmit_with_csma_cd follows the order sense -> (busy: sense again
\* | clear: transmit bytes) -> (collision: jam, then backoff, then sense |
\* all bytes sent: done): a frame byte is written only after the most recent
\* sense reported clear, and between a detected collision and the next clear
\* sense the only bytes written are the jam burst, written before the
\* backoff sleep.
C30_SenseBeforeTransmit ==
    [][/\ <<tx_pc, tx_pc'>> \in
              {<<"loop", "poll_wait">>, <<"poll_wait", "loop">>,
               <<"loop", "sending">>, <<"sending", "sending">>,
               <<"sending", "backoff">>, <<"backoff", "loop">>,
               <<"sending", "error_wait">>, <<"error_wait", "loop">>,
               <<"sending", "returned">>, <<"loop", "returned">>,
               <<"returned", "returned">>, <<"loop", "loop">>,
               <<"backoff", "backoff">>, <<"poll_wait", "poll_wait">>,
               <<"error_wait", "error_wait">>}
       /\ (tx_pc = "sending" /\ tx_pc' = "sending")
             => \/ tx_written' = tx_written
                \/ /\ tx_i < Len(tx_data)
                   /\ tx_written' = Append(tx_written, tx_data[tx_i + 1])
       /\ (tx_pc = "sending" /\ tx_pc' = "backoff")
             => tx_written' \in {tx_written,
                                 tx_written \o <<255, 255, 255, 255>>}
       /\ (tx_pc # "sending" /\ tx_pc' # "sending")
             => tx_written' = tx_written
       /\ Len(line') > Len(line) => tx_pc = "sending"
       /\ (Len(line') > Len(line) /\ line'[Len(line')] # 255)
             => /\ tx_pc' = "sending"
                /\ tx_i < Len(tx_data)
                /\ line' = Append(line, tx_data[tx_i + 1])]_vars

\* after a busy sense and a clear one the second frame byte collided: the
\* first byte and the jam burst are written, the backoff sleep is running
C30_Witness ==
    /\ tx_pc = "backoff"
    /\ "busy" \in tx_seen
    /\ collision_count = 1
    /\ retry_count = 1
    /\ tx_written = <<tx_data[1], JAM, JAM, JAM, JAM>>

\* C13: an I/O failure of port.write during transmit_with_csma_cd is
\* propagated to the caller and not retried inside the transmit loop: after
\* a failed write the call neither sends again nor returns True or False.
C13_WriteErrorPropagated ==
    (\E a \in tx_aborts : a[1] = "write_error")
        => tx_pc \notin {"sending", "returned"}

----------------------------------------------------------------------------
(* The CSMA/CD variant end to end, 4_LAB/main_app.py: send_data_1 prepares *)
(* the frames and hands each to transmit_with_csma_cd; the bytes written   *)
(* wait on the line; SerialWorker.run reads them one by one, drops the jam *)
(* byte and gives every other byte to on_data_received_1.                  *)

\* the texts typed into the input field
LinkTexts == SeqsOf(TextAlphabet, 1, MaxMsgLen)

\* every chunk of a message, the last one padded
PadLast(chunks) == [k \in 1..Len(chunks) |-> PadChunk(chunks[k])]

\* prepare_data with frames that carry no destination address
prepare_data_no_dest(data_bytes, source_port_num) ==
    LET chunks == Chunks(data_bytes)
    IN  [k \in 1..Len(chunks) |->
            LET padded == PadChunk(chunks[k])
            IN  [chunk |-> padded,
                 frame |-> FLAG \o <<SourceAddr(source_port_num)>>
                                \o StuffBytes(padded)]]

\* prepare_data of 4_LAB: one [chunk, frame] per chunk, the chunk padded
\* with zeros and stuffed behind the header
prepare_data(data_bytes, source_port_num) ==
    LET chunks == Chunks(data_bytes)
    IN  [k \in 1..Len(chunks) |->
            LET padded == PadChunk(chunks[k])
            IN  [chunk |-> padded,
                 frame |-> FLAG \o <<SourceAddr(source_port_num), DEST_ADDR>>
                                \o StuffBytes(padded)]]

RECURSIVE ScanFrames(_, _)
\* the while True loop of on_data_received_1 (4_LAB) on the extended buffer:
\* [buffer |-> what is left, output |-> the packets shown]
ScanFrames(buffer, output) ==
    LET start_index == Find(buffer, FLAG)
        min_frame_size == 4 + DATA_LENGTH
        potential_frame == SliceFrom(buffer, start_index)
        raw_data == SliceFrom(potential_frame, 4)
        unstuffed == UnstuffBytes(raw_data)
        received_data == Slice(unstuffed, 0, DATA_LENGTH)
        next_frame_start == start_index + 4 + Len(raw_data)
        rest == IF next_frame_start <= Len(buffer)
                THEN SliceFrom(buffer, next_frame_start)
                ELSE <<>>
        packet == [source_addr |-> potential_frame[3], data |-> received_data]
    IN  IF start_index = -1
        THEN [buffer |-> TrimBuffer(buffer), output |-> output]
        ELSE IF Len(buffer) - start_index < min_frame_size
        THEN [buffer |-> buffer, output |-> output]
        ELSE IF Len(unstuffed) < DATA_LENGTH
        THEN [buffer |-> buffer, output |-> output]
        ELSE ScanFrames(rest, Append(output, packet))

\* on_data_received_1 of 4_LAB
on_data_received_1(buffer, data_bytes) ==
    ScanFrames(buffer \o data_bytes, <<>>)

LinkInit ==
    /\ Lab4Idle
    /\ HarnessIdle
    /\ HammingIdle
    /\ StuffIdle
    /\ Lab3Idle

LinkFrame == UNCHANGED <<hammingVars, stuffVars, lab3Vars, harnessVars>>

\* send_data_1 with a non-empty text out of texts: when the transmit port
\* is open the text is prepared into frames
SendData(texts) ==
    /\ tx_pc = "idle"
    /\ tx_frames = <<>>
    /\ ports_open
    /\ sends < MaxSends
    /\ \E text \in texts, port \in SourcePorts :
          /\ tx_frames' = prepare_data(text, port)
          /\ tx_message' = PadLast(Chunks(text))
    /\ sends' = sends + 1
    /\ tx_calls' = <<>>
    /\ UNCHANGED <<txVars, sent_ok, rx_buffer_1, output_text, ports_open,
                   stop_requested>>
    /\ LinkFrame

send_data_1 == SendData(LinkTexts)

\* the for loop of send_data_1 calls transmit_with_csma_cd(list(frame))
TransmitCall ==
    /\ tx_pc = "idle"
    /\ tx_frames # <<>>
    /\ tx_pc' = "loop"
    /\ tx_data' = Head(tx_frames).frame
    /\ UNCHANGED <<tx_i, collision_count, retry_count, tx_result, line,
                   tx_written, tx_attempts, tx_seen, tx_aborts>>
    /\ UNCHANGED <<linkVars, endpointVars>>
    /\ LinkFrame

\* what the for loop of send_data_1 resets when a call has returned
TransmitterAtRest ==
    /\ tx_pc' = "idle"
    /\ tx_data' = <<>>
    /\ tx_i' = 0
    /\ collision_count' = 0
    /\ retry_count' = 0
    /\ tx_result' = "none"
    /\ tx_written' = <<>>
    /\ tx_attempts' = 0
    /\ tx_seen' = {}
    /\ tx_aborts' = {}

TransmitReturnOrAbort ==
    /\ tx_pc = "returned"
    /\ tx_frames # <<>>
    /\ sent_ok' = IF tx_result = "True"
                  THEN Append(sent_ok, Head(tx_frames).chunk)
                  ELSE sent_ok
    /\ tx_calls' = Append(tx_calls, [chunk |-> Head(tx_frames).chunk,
                                     result |-> tx_result])
    /\ tx_frames' = IF tx_result = "True" THEN Tail(tx_frames) ELSE <<>>
    /\ TransmitterAtRest
    /\ UNCHANGED <<line, sends, rx_buffer_1, output_text, ports_open,
                   stop_requested, tx_message>>
    /\ LinkFrame

\* the call returned: success is counted, failure is logged, and the for
\* loop goes on to the next frame
TransmitReturn ==
    /\ tx_pc = "returned"
    /\ tx_frames # <<>>
    /\ sent_ok' = IF tx_result = "True"
                  THEN Append(sent_ok, Head(tx_frames).chunk)
                  ELSE sent_ok
    /\ tx_calls' = Append(tx_calls, [chunk |-> Head(tx_frames).chunk,
                                     result |-> tx_result])
    /\ tx_frames' = Tail(tx_frames)
    /\ TransmitterAtRest
    /\ UNCHANGED <<line, sends, rx_buffer_1, output_text, ports_open,
                   stop_requested, tx_message>>
    /\ LinkFrame

\* SerialWorker.run of 4_LAB reads one byte: 0xFF emits jam_signal_received,
\* which is only logged; any other byte emits data_received, whose slot is
\* on_data_received_1
SerialWorker_run ==
    /\ line # <<>>
    /\ LET byte == Head(line)
           r == on_data_received_1(rx_buffer_1, <<byte>>)
       IN  IF byte = JAM
           THEN UNCHANGED <<rx_buffer_1, output_text>>
           ELSE /\ rx_buffer_1' = r.buffer
                /\ output_text' = output_text \o r.output
    /\ line' = Tail(line)
    /\ UNCHANGED <<tx_pc, tx_data, tx_i, collision_count, retry_count,
                   tx_result, tx_written, tx_attempts, tx_seen, tx_aborts>>
    /\ UNCHANGED <<tx_frames, sends, sent_ok, endpointVars>>
    /\ LinkFrame

\* at most MaxAborts attempts of one call are aborted
LinkCollision == DetectCollision /\ retry_count' <= MaxAborts

LinkWriteError == WriteError /\ retry_count' <= MaxAborts

LinkNext ==
    \/ send_data_1
    \/ TransmitCall
    \/ ListenBusy
    \/ PollWaitDone
    \/ ListenClear
    \/ LinkCollision
    \/ BackoffDone
    \/ WriteByte
    \/ LinkWriteError
    \/ ErrorWaitDone
    \/ AllBytesSent
    \/ TransmitReturn
    \/ SerialWorker_run

SpecLink == LinkInit /\ [][LinkNext]_vars

\* every frame handed to the transmitter has returned and every byte
\* written has been read
LinkQuiet ==
    /\ tx_pc = "idle"
    /\ tx_frames = <<>>
    /\ line = <<>>

\* C10: in the CSMA/CD variant, for frames whose transmit_with_csma_cd
\* calls return True after any number of mid-frame collisions, the
\* receiving endpoint delivers exactly the payloads of those frames, each
\* once and in emission order, and no other payload.
C10_DeliversSentFrames ==
    LinkQuiet => [k \in 1..Len(output_text) |-> output_text[k].data] = sent_ok

----------------------------------------------------------------------------
(* The sending endpoint of 4_LAB: send_data_1 runs in the GUI thread and   *)
(* calls transmit_with_csma_cd for each frame in turn; a click on the      *)
(* disconnect button is an event the GUI thread handles when it is free.   *)
(* Here one message is sent, port.write never fails, and nobody assembles  *)
(* frames from the line.                                                   *)

\* the messages sent: c chunks, the last of one letter, c in 1..MaxChunks
SendTexts ==
    {[k \in 1..((c - 1) * DATA_LENGTH + 1) |-> 65] : c \in 1..MaxChunks}

\* one call of send_data_1
send_data_long == sends = 0 /\ SendData(SendTexts)

\* the user clicks the disconnect button, enabled while connected
RequestStop ==
    /\ ports_open
    /\ ~stop_requested
    /\ stop_requested' = TRUE
    /\ UNCHANGED <<txVars, linkVars, ports_open, tx_message, tx_calls>>
    /\ LinkFrame

\* disconnect_ports_1, the slot of the button's clicked signal: it runs
\* when the GUI thread is not inside send_data_1, and closes the ports
disconnect_ports_1 ==
    /\ stop_requested
    /\ ports_open
    /\ tx_pc = "idle"
    /\ tx_frames = <<>>
    /\ ports_open' = FALSE
    /\ UNCHANGED <<txVars, linkVars, stop_requested, tx_message, tx_calls>>
    /\ LinkFrame

SendNext ==
    \/ send_data_long
    \/ TransmitCall
    \/ ListenBusy
    \/ PollWaitDone
    \/ ListenClear
    \/ DetectCollision
    \/ BackoffDone
    \/ WriteByte
    \/ AllBytesSent
    \/ RetriesExhausted
    \/ TransmitReturn
    \/ LineDrain
    \/ RequestStop
    \/ disconnect_ports_1

SpecSend == LinkInit /\ [][SendNext]_vars

\* the chunks of the calls that returned, then of the frames still to send
ChunksInSendOrder ==
    [k \in 1..Len(tx_calls) |-> tx_calls[k].chunk]
        \o [k \in 1..Len(tx_frames) |-> tx_frames[k].chunk]

\* C14: in send_data of the CSMA/CD variant, a frame whose
\* transmit_with_csma_cd returns False neither closes the ports nor ends
\* the send loop: every prepared frame is attempted exactly once, in chunk
\* order, whatever the result of the earlier frames.
C14_FailedFrameNotFatal ==
    /\ ChunksInSendOrder = tx_message
    /\ ~ports_open => stop_requested

\* the first frame failed, the second was sent, the ports are open
C14_Witness ==
    /\ tx_pc = "idle"
    /\ tx_frames = <<>>
    /\ Len(tx_calls) = 2
    /\ tx_calls[1].result = "False"
    /\ tx_calls[2].result = "True"
    /\ ports_open
    /\ ~stop_requested

\* C15: a stop (disconnect) request raised while transmit_with_csma_cd is
\* sensing a busy channel, sending bytes or sleeping in backoff makes the
\* retry loop abort promptly: once the request is raised the call writes no
\* further frame byte and starts no further attempt.
C15_StopAbortsTransmit ==
    [][(stop_requested /\ ports_open)
          => (tx_i' # tx_i + 1 /\ tx_attempts' <= tx_attempts)]_vars

----------------------------------------------------------------------------
(* on_data_received_1 of 4_LAB on its own: the frames prepare_data builds  *)
(* from one message reach the slot either one byte per call, as            *)
(* SerialWorker.run emits them, or all in one call.                        *)

\* a full chunk: a first byte, eight letters, a last byte
FeedChunks ==
    {<<a>> \o [k \in 1..(DATA_LENGTH - 2) |-> 65] \o <<b>> :
        a \in TextAlphabet, b \in TextAlphabet}

RECURSIVE Concat(_)
\* b''.join(parts)
Concat(parts) ==
    IF parts = <<>> THEN <<>> ELSE Head(parts) \o Concat(Tail(parts))

\* the messages fed: 1..MaxFeedFrames full chunks
FeedTexts == {Concat(cs) : cs \in SeqsOf(FeedChunks, 1, MaxFeedFrames)}

FeedInit ==
    /\ feed_mode \in {"bytes", "batch"}
    /\ \E text \in FeedTexts, port \in SourcePorts :
          LET prepared == prepare_data(text, port)
          IN  /\ feed_payloads = [k \in 1..Len(prepared) |-> prepared[k].chunk]
              /\ feed_stream = Concat([k \in 1..Len(prepared) |-> prepared[k].frame])
    /\ feed_pending = feed_stream
    /\ WorkerIdle
    /\ PrepIdle
    /\ BackoffIdle
    /\ UnitIdle
    /\ Lab4Idle
    /\ HammingIdle
    /\ StuffIdle
    /\ Lab3Idle

FeedFrame ==
    UNCHANGED <<hammingVars, stuffVars, lab3Vars, txVars, tx_frames, sends,
                sent_ok, endpointVars, feed_mode, feed_payloads, feed_stream,
                workerVars, prepVars, backoffVars,
                unitVars>>

\* data_received.emit(byte): on_data_received_1 with one byte
FeedByte ==
    /\ feed_mode = "bytes"
    /\ feed_pending # <<>>
    /\ LET r == on_data_received_1(rx_buffer_1, <<Head(feed_pending)>>)
       IN  /\ rx_buffer_1' = r.buffer
           /\ output_text' = output_text \o r.output
    /\ feed_pending' = Tail(feed_pending)
    /\ FeedFrame

\* on_data_received_1 with every byte of the message's frames at once
FeedAll ==
    /\ feed_mode = "batch"
    /\ feed_pending # <<>>
    /\ LET r == on_data_received_1(rx_buffer_1, feed_pending)
       IN  /\ rx_buffer_1' = r.buffer
           /\ output_text' = output_text \o r.output
    /\ feed_pending' = <<>>
    /\ FeedFrame

FeedNext == FeedByte \/ FeedAll

SpecFeed == FeedInit /\ [][FeedNext]_vars

\* the payloads of the packets shown, oldest first
OutputData == [k \in 1..Len(output_text) |-> output_text[k].data]

\* C11: in the CSMA/CD variant, feeding the frame of a DATA_LENGTH-byte
\* payload p to on_data_received one byte at a time delivers nothing and
\* removes nothing from the buffer before the last byte has arrived, and on
\* the last byte delivers exactly one packet with payload p and leaves the
\* receive buffer empty.
C11_IncompleteUntilLastByte ==
    (feed_mode = "bytes" /\ Len(feed_payloads) = 1)
        => IF feed_pending # <<>>
           THEN /\ output_text = <<>>
                /\ rx_buffer_1 = SubSeq(feed_stream, 1,
                                        Len(feed_stream) - Len(feed_pending))
           ELSE /\ OutputData = feed_payloads
                /\ Len(output_text) = 1
                /\ rx_buffer_1 = <<>>

\* C12: when the buffer holds two complete frames back to back after one
\* call, on_data_received removes exactly the bytes of the first frame,
\* keeps scanning, and delivers both payloads in order.
C12_BackToBackFrames ==
    (feed_mode = "batch" /\ feed_pending = <<>>) => OutputData = feed_payloads

----------------------------------------------------------------------------
(* SerialWorker of 4_LAB in its thread, and disconnect_ports_1 in the GUI  *)
(* thread: stop() clears _is_running, quit() and wait() let the thread     *)
(* end, then the ports are closed.  read(1) returns a byte, or nothing     *)
(* when the 1 s timeout expires, or raises.                                *)

\* what the peer has written to the receive port
WorkerBytes == {65, 66, JAM}

WorkerInit ==
    /\ w_pc = "check"
    /\ is_running = TRUE
    /\ w_byte = -1
    /\ w_line \in SeqsOf(WorkerBytes, 0, MaxWorkerBytes)
    /\ w_emitted = <<>>
    /\ rx_port_open = TRUE
    /\ dc_pc = "none"
    /\ reads_after_stop = 0
    /\ signals_after_stop = 0
    /\ w_read = <<>>
    /\ read_failed = FALSE
    /\ tx_port_1_open = TRUE
    /\ is_connected = TRUE
    /\ FeedIdle
    /\ PrepIdle
    /\ BackoffIdle
    /\ UnitIdle
    /\ Lab4Idle
    /\ HammingIdle
    /\ StuffIdle
    /\ Lab3Idle

WorkerFrame ==
    UNCHANGED <<hammingVars, stuffVars, lab3Vars, lab4Vars, feedVars,
                prepVars, backoffVars, unitVars>>

\* one more after stop() has been called, none before
CountAfterStop(n) == IF is_running THEN n ELSE n + 1

\* while self._is_running: ... if self.serial_port.is_open: read(1)
WorkerCheck ==
    /\ w_pc = "check"
    /\ w_pc' = IF ~is_running THEN "finished"
               ELSE IF rx_port_open THEN "read" ELSE "check"
    /\ UNCHANGED <<is_running, w_byte, w_line, w_emitted, rx_port_open, dc_pc,
                   reads_after_stop, signals_after_stop>>
    /\ UNCHANGED <<w_read, read_failed, tx_port_1_open, is_connected>>
    /\ WorkerFrame

\* read(1) returns a byte
WorkerReadByte ==
    /\ w_pc = "read"
    /\ w_line # <<>>
    /\ w_byte' = Head(w_line)
    /\ w_line' = Tail(w_line)
    /\ w_pc' = "got"
    /\ reads_after_stop' = CountAfterStop(reads_after_stop)
    /\ UNCHANGED <<is_running, w_emitted, rx_port_open, dc_pc,
                   signals_after_stop>>
    /\ w_read' = Append(w_read, Head(w_line))
    /\ UNCHANGED <<read_failed, tx_port_1_open, is_connected>>
    /\ WorkerFrame

\* read(1) returns b'' after the timeout: if byte is false
WorkerReadTimeout ==
    /\ w_pc = "read"
    /\ w_line = <<>>
    /\ w_pc' = "check"
    /\ reads_after_stop' = CountAfterStop(reads_after_stop)
    /\ UNCHANGED <<is_running, w_byte, w_line, w_emitted, rx_port_open, dc_pc,
                   signals_after_stop>>
    /\ UNCHANGED <<w_read, read_failed, tx_port_1_open, is_connected>>
    /\ WorkerFrame

\* read(1) raises serial.SerialException or OSError: break
WorkerReadError ==
    /\ w_pc = "read"
    /\ w_pc' = "finished"
    /\ reads_after_stop' = CountAfterStop(reads_after_stop)
    /\ UNCHANGED <<is_running, w_byte, w_line, w_emitted, rx_port_open, dc_pc,
                   signals_after_stop>>
    /\ read_failed' = TRUE
    /\ UNCHANGED <<w_read, tx_port_1_open, is_connected>>
    /\ WorkerFrame

\* data_received.emit(byte) for every byte
WorkerEmitAll ==
    /\ w_pc = "got"
    /\ w_emitted' = Append(w_emitted,
                           [signal |-> "data_received", arg |-> <<w_byte>>])
    /\ w_byte' = -1
    /\ w_pc' = "check"
    /\ signals_after_stop' = CountAfterStop(signals_after_stop)
    /\ UNCHANGED <<is_running, w_line, rx_port_open, dc_pc, reads_after_stop>>
    /\ UNCHANGED <<w_read, read_failed, tx_port_1_open, is_connected>>
    /\ WorkerFrame

\* jam_signal_received.emit() for 0xFF, data_received.emit(byte) otherwise
WorkerEmit ==
    /\ w_pc = "got"
    /\ w_emitted' = Append(w_emitted,
                           IF w_byte = JAM
                           THEN [signal |-> "jam_signal_received",
                                 arg |-> <<>>]
                           ELSE [signal |-> "data_received",
                                 arg |-> <<w_byte>>])
    /\ w_byte' = -1
    /\ w_pc' = "check"
    /\ signals_after_stop' = CountAfterStop(signals_after_stop)
    /\ UNCHANGED <<is_running, w_line, rx_port_open, dc_pc, reads_after_stop>>
    /\ UNCHANGED <<w_read, read_failed, tx_port_1_open, is_connected>>
    /\ WorkerFrame

\* disconnect_ports_1: worker_1.stop(), receive_thread_1.quit(), then wait()
DisconnectStop ==
    /\ dc_pc = "none"
    /\ is_running' = FALSE
    /\ dc_pc' = "waiting"
    /\ UNCHANGED <<w_pc, w_byte, w_line, w_emitted, rx_port_open,
                   reads_after_stop, signals_after_stop>>
    /\ UNCHANGED <<w_read, read_failed, tx_port_1_open, is_connected>>
    /\ WorkerFrame

DisconnectCloseAtOnce ==
    /\ dc_pc = "waiting"
    /\ rx_port_open' = FALSE
    /\ dc_pc' = "closed"
    /\ UNCHANGED <<w_pc, is_running, w_byte, w_line, w_emitted,
                   reads_after_stop, signals_after_stop>>
    /\ tx_port_1_open' = FALSE
    /\ is_connected' = FALSE
    /\ UNCHANGED <<w_read, read_failed>>
    /\ WorkerFrame

\* wait() returned because the thread has finished: the ports are closed
DisconnectClose ==
    /\ dc_pc = "waiting"
    /\ w_pc = "finished"
    /\ rx_port_open' = FALSE
    /\ dc_pc' = "closed"
    /\ UNCHANGED <<w_pc, is_running, w_byte, w_line, w_emitted,
                   reads_after_stop, signals_after_stop>>
    /\ tx_port_1_open' = FALSE
    /\ is_connected' = FALSE
    /\ UNCHANGED <<w_read, read_failed>>
    /\ WorkerFrame

WorkerNext ==
    \/ WorkerCheck
    \/ WorkerReadByte
    \/ WorkerReadTimeout
    \/ WorkerReadError
    \/ WorkerEmit
    \/ DisconnectStop
    \/ DisconnectClose

SpecWorker == WorkerInit /\ [][WorkerNext]_vars

\* C16: after SerialWorker.stop() is called, run() leaves its loop after at
\* most one more blocking read(1), emits at most one more byte signal, and
\* disconnect_ports closes the receive port only after the receive thread
\* has finished.
C16_StopWithinOneRead ==
    /\ reads_after_stop <= 1
    /\ signals_after_stop <= 1
    /\ ~rx_port_open => w_pc = "finished"

\* stop() came while read(1) was blocked: that read returned a byte, the
\* byte was emitted, the thread finished with bytes left and the port closed
C16_Witness ==
    /\ dc_pc = "closed"
    /\ reads_after_stop = 1
    /\ signals_after_stop = 1
    /\ w_line # <<>>

\* the bytes handed over with data_received, in emission order
EmittedData ==
    LET sel == SelectSeq(w_emitted, LAMBDA e : e.signal = "data_received")
    IN  [k \in 1..Len(sel) |-> sel[k].arg[1]]

\* the bytes read whose signal has been emitted
ReadAndEmitted == SubSeq(w_read, 1, Len(w_emitted))

\* C36: SerialWorker.run of the CSMA/CD variant emits, for the sequence of
\* bytes it reads, jam_signal_received once per 0xFF byte and data_received
\* for every other byte, in read order: the data stream handed to the
\* reassembler is the read stream with exactly the 0xFF bytes removed.
C36_JamBytesFiltered ==
    /\ Len(w_emitted) = Len(w_read) - (IF w_pc = "got" THEN 1 ELSE 0)
    /\ \A k \in 1..Len(w_emitted) :
          IF w_read[k] = JAM
          THEN w_emitted[k] = [signal |-> "jam_signal_received", arg |-> <<>>]
          ELSE w_emitted[k] = [signal |-> "data_received",
                               arg |-> <<w_read[k]>>]
    /\ EmittedData = SelectSeq(ReadAndEmitted, LAMBDA b : b # JAM)

\* 'A', the jam byte and 'B' were read and their three signals emitted
C36_Witness ==
    /\ w_read = <<65, JAM, 66>>
    /\ Len(w_emitted) = 3
    /\ EmittedData = <<65, 66>>

\* the worker thread keeps running, and a disconnect that has stopped the
\* worker goes on to close the ports; the user pressing Disconnect and a
\* failing read are not forced
SpecWorkerFair ==
    /\ SpecWorker
    /\ WF_vars(WorkerCheck)
    /\ WF_vars(WorkerReadByte)
    /\ WF_vars(WorkerReadTimeout)
    /\ WF_vars(WorkerEmit)
    /\ WF_vars(DisconnectClose)

\* C37: when the transport read fails (SerialException or OSError) in
\* SerialWorker.run, the failure is propagated to the owning endpoint and
\* triggers its teardown: the endpoint ends in the disconnected state with
\* both ports closed.
C37_ReadFailureTearsDown ==
    read_failed ~> (/\ ~is_connected
                    /\ ~rx_port_open
                    /\ ~tx_port_1_open)

----------------------------------------------------------------------------
(* prepare_data of 4_LAB on its own, for messages of up to three chunks    *)
(* and for port names whose number is a flag byte, the jam byte or too     *)
(* large for one byte.                                                     *)

\* the numbers in the names of the transmit ports: COM5, COM64, COM105,
\* COM255, COM300
PreparePorts == {5, FLAG_START, FLAG_END, JAM, 300}

\* n letters
Letters(n) == [k \in 1..n |-> 65]

\* the messages: at most one byte of the text alphabet, up to MaxFill
\* letters, at most one byte of the text alphabet
PrepareTexts ==
    {h \o Letters(n) \o t : h \in SeqsOf(TextAlphabet, 0, 1),
                            n \in 0..MaxFill,
                            t \in SeqsOf(TextAlphabet, 0, 1)} \ {<<>>}

PrepareInit ==
    /\ prep_pc = "start"
    /\ prep_text \in PrepareTexts
    /\ prep_port \in PreparePorts
    /\ prep_frames = <<>>
    /\ prep_bodies = <<>>
    /\ FeedIdle
    /\ WorkerIdle
    /\ BackoffIdle
    /\ UnitIdle
    /\ Lab4Idle
    /\ HammingIdle
    /\ StuffIdle
    /\ Lab3Idle

\* frames, display_html = self.prepare_data(text_to_send, port_num)
PrepareData ==
    /\ prep_pc = "start"
    /\ LET prepared == prepare_data(prep_text, prep_port)
       IN  /\ prep_frames' = [k \in 1..Len(prepared) |-> prepared[k].frame]
           /\ prep_bodies' = [k \in 1..Len(prepared) |-> prepared[k].chunk]
    /\ prep_pc' = "done"
    /\ UNCHANGED <<prep_text, prep_port>>
    /\ UNCHANGED <<hammingVars, stuffVars, lab3Vars, lab4Vars, feedVars,
                   workerVars, backoffVars, unitVars>>

\* frames, display_html = self.prepare_data(text_to_send, port_num) of
\* 3_LAB, for a short message, the port names of 3_LAB and every draw of
\* apply_bit_corruption
PrepareDataFcs ==
    /\ prep_pc = "start"
    /\ Len(prep_text) <= MaxFcsText
    /\ prep_port \in SourcePorts
    /\ LET chunks == Chunks(prep_text)
       IN  \E corruption \in [1..Len(chunks) -> Corruptions] :
              /\ prep_frames' = prepare_data_fcs(prep_text, prep_port,
                                                 corruption)
              /\ prep_bodies' = [k \in 1..Len(chunks) |->
                                    data_with_fcs(PadChunk(chunks[k]),
                                                  corruption[k])]
    /\ prep_pc' = "done_fcs"
    /\ UNCHANGED <<prep_text, prep_port>>
    /\ UNCHANGED <<hammingVars, stuffVars, lab3Vars, lab4Vars, feedVars,
                   workerVars, backoffVars, unitVars>>

PrepareNext == PrepareData \/ PrepareDataFcs

SpecPrepare == PrepareInit /\ [][PrepareNext]_vars

\* the stuffed field of a frame: what follows flag, source and destination
StuffedField(frame) == SliceFrom(frame, 4)

\* C17: no byte of any frame produced by prepare_data in the CSMA/CD
\* variant equals the jam byte 0xFF, for every message and every source
\* port number.
C17_NoJamByteInFrame ==
    prep_pc = "done"
        => \A k \in 1..Len(prep_frames) :
              \A j \in 1..Len(prep_frames[k]) : prep_frames[k][j] # JAM

RECURSIVE EscapedFrom(_, _)
\* from 1-based index i on, s is made of bytes that are not reserved and of
\* pairs ESC + reserved byte
EscapedFrom(s, i) ==
    IF i > Len(s) THEN TRUE
    ELSE IF s[i] = ESC
         THEN /\ i + 1 <= Len(s)
              /\ s[i + 1] \in ReservedBytes
              /\ EscapedFrom(s, i + 2)
    ELSE IF s[i] \in ReservedBytes THEN FALSE
    ELSE EscapedFrom(s, i + 1)

\* the 0-based offsets of the two-byte FLAG in a frame
FlagOffsets(frame) ==
    {i \in 0..(Len(frame) - 2) : SubSeq(frame, i + 1, i + 2) = FLAG}

\* C19: the stuffed region of a frame contains no unescaped reserved byte:
\* every 0x40 and 0x69 in it is preceded by an ESC that starts an escape
\* pair, so FLAG occurs in a frame produced by prepare_data only at offset 0.
C19_NoUnescapedReserved ==
    prep_pc = "done"
        => \A k \in 1..Len(prep_frames) :
              /\ EscapedFrom(StuffedField(prep_frames[k]), 1)
              /\ FlagOffsets(prep_frames[k]) = {0}

\* the message '@i' sent from COM64: flag bytes as source address and as
\* neighbours in the payload
C19_Witness ==
    /\ prep_pc = "done"
    /\ prep_text = FLAG
    /\ prep_port = FLAG_START
    /\ Len(prep_frames[1]) = 4 + DATA_LENGTH + 2

\* ceil(b / DATA_LENGTH)
FrameCount(b) == (b + DATA_LENGTH - 1) \div DATA_LENGTH

\* message bytes [k*DATA_LENGTH, (k+1)*DATA_LENGTH) of frame k (1-based
\* here), right-padded with 0x00
ExpectedPayload(text, k) ==
    [j \in 1..DATA_LENGTH |->
        IF (k - 1) * DATA_LENGTH + j <= Len(text)
        THEN text[(k - 1) * DATA_LENGTH + j]
        ELSE 0]

\* C20: prepare_data on a message of b > 0 bytes yields exactly
\* ceil(b / DATA_LENGTH) frames in chunk order; the unstuffed payload of
\* frame k is exactly DATA_LENGTH bytes, the message bytes of chunk k
\* right-padded with 0x00.
C20_ChunksToFrames ==
    prep_pc = "done"
        => /\ Len(prep_frames) = FrameCount(Len(prep_text))
           /\ \A k \in 1..Len(prep_frames) :
                 UnstuffBytes(StuffedField(prep_frames[k]))
                     = ExpectedPayload(prep_text, k)

\* three frames, the last one padded, a reserved byte first and last
C20_Witness ==
    /\ prep_pc = "done"
    /\ Len(prep_frames) = 3
    /\ Len(prep_text) % DATA_LENGTH # 0
    /\ prep_text[1] \in ReservedBytes
    /\ prep_text[Len(prep_text)] \in ReservedBytes

\* C21: every frame prepare_data produces starts with the two flag bytes,
\* then one source-address byte that is the port number when that number is
\* in 0..255 and 0 otherwise, then the destination byte 0.
C21_FrameHeader ==
    prep_pc = "done"
        => /\ prep_frames # <<>>
           /\ \A k \in 1..Len(prep_frames) :
                 /\ Len(prep_frames[k]) >= 4
                 /\ prep_frames[k][1] = 64
                 /\ prep_frames[k][2] = 105
                 /\ prep_frames[k][3]
                        = (IF prep_port >= 0 /\ prep_port <= 255
                           THEN prep_port ELSE 0)
                 /\ prep_frames[k][4] = 0

\* the port number 300 does not fit one byte: the frames carry source 0
C21_Witness ==
    /\ prep_pc = "done"
    /\ prep_port = 300
    /\ Len(prep_frames) = 2
    /\ prep_frames[2][3] = 0

\* the number of reserved bytes in s
ReservedCount(s) == Cardinality({j \in 1..Len(s) : s[j] \in ReservedBytes})

\* "Hi"
Hi == <<72, 105>>

\* C22: the message "Hi" yields exactly one frame whose payload is "Hi"
\* zero-padded to DATA_LENGTH = 10 bytes; the length of every frame is
\* 4 + DATA_LENGTH, plus FCS_LENGTH with the FCS, plus the number of reserved
\* bytes in the body that went into the stuffing.
C22_FrameLength ==
    /\ prep_pc \in {"done", "done_fcs"}
        => \A k \in 1..Len(prep_frames) :
              LET fcs == IF prep_pc = "done_fcs" THEN FCS_LENGTH ELSE 0
              IN  /\ Len(prep_bodies[k]) = 10 + fcs
                  /\ Len(prep_frames[k])
                         = 4 + 10 + fcs + ReservedCount(prep_bodies[k])
    /\ prep_pc \in {"done", "done_fcs"} /\ prep_text = Hi
        => Len(prep_frames) = 1
    /\ prep_pc = "done" /\ prep_text = Hi
        => /\ prep_bodies[1] = <<72, 105, 0, 0, 0, 0, 0, 0, 0, 0>>
           /\ UnstuffBytes(StuffedField(prep_frames[1])) = prep_bodies[1]

\* "Hi" was framed: 'i' is the flag-end byte, so the frame has 15 bytes
C22_Witness ==
    /\ prep_pc = "done"
    /\ prep_text = Hi
    /\ Len(prep_frames[1]) = 15

\* the message with every flag-start byte replaced by a letter
WithoutFlagStart(text) ==
    [j \in 1..Len(text) |-> IF text[j] = FLAG_START THEN 65 ELSE text[j]]

\* the number of flag-start bytes in s
FlagStartCount(s) == Cardinality({j \in 1..Len(s) : s[j] = FLAG_START})

\* the amount by which the stuffed region of frame k is longer than the
\* stuffed region of frame k of the message without its flag-start bytes
StuffedExcess(k) ==
    Len(StuffedField(prep_frames[k]))
        - Len(StuffedField(
                  prepare_data(WithoutFlagStart(prep_text),
                               prep_port)[k].frame))

\* C23 as stated: a payload that contains the flag-start byte 0x40 has a
\* stuffed region two bytes longer than the payload of the same length
\* without it.
C23_TwoBytesLonger ==
    prep_pc = "done"
        => \A k \in 1..Len(prep_frames) :
              FlagStartCount(prep_bodies[k]) > 0 => StuffedExcess(k) = 2

\* C23, amended: the stuffed region is longer by one byte for each
\* flag-start byte in the payload.
C23_OneByteLongerEach ==
    prep_pc = "done"
        => \A k \in 1..Len(prep_frames) :
              StuffedExcess(k) = FlagStartCount(prep_bodies[k])

\* a payload with exactly one flag-start byte, its stuffed region one byte
\* longer
C23_Witness ==
    /\ prep_pc = "done"
    /\ Len(prep_frames) = 1
    /\ FlagStartCount(prep_bodies[1]) = 1
    /\ StuffedExcess(1) = 1

----------------------------------------------------------------------------
(* get_sec_ded_hamming_params on its own (part 4 of 3_LAB/test_hamming.py), *)
(* and the FCS length __init__ derives from the parity bit count.           *)

ParamInit ==
    /\ par_pc = "start"
    /\ par_m \in 1..MaxParamBits
    /\ par_result = <<>>
    /\ par_fcs_length = 0
    /\ TrimIdle
    /\ PairIdle
    /\ JamIdle
    /\ FeedIdle
    /\ WorkerIdle
    /\ PrepIdle
    /\ BackoffIdle
    /\ Lab4Idle
    /\ HammingIdle
    /\ StuffIdle
    /\ Lab3Idle
    /\ ExtraIdle

\* r, total_len = get_sec_ded_hamming_params(data_bits);
\* FCS_LENGTH = (fcs_bits_count + 7) // 8
GetParams ==
    /\ par_pc = "start"
    /\ par_result' = get_sec_ded_hamming_params(par_m)
    /\ par_fcs_length' = (par_result'[1] + 7) \div 8
    /\ par_pc' = "done"
    /\ UNCHANGED par_m
    /\ UNCHANGED <<hammingVars, stuffVars, lab3Vars, lab4Vars, feedVars,
                   workerVars, prepVars, backoffVars, trimVars, pairVars,
                   jamVars,
                   extraVars>>

ParamNext == GetParams

SpecParams == ParamInit /\ [][ParamNext]_vars

\* C24: for every m >= 1, get_sec_ded_hamming_params(m) returns
\* (r + 1, m + r + 1) where r is the least integer with 2^r >= m + r + 1;
\* for m = 80 this gives r = 7, n = 88 and an FCS of ceil(8 / 8) = 1 byte.
C24_HammingParams ==
    par_pc = "done"
        => /\ \E r \in 0..(par_m + 1) :
                 /\ 2 ^ r >= par_m + r + 1
                 /\ \A q \in 0..(r - 1) : 2 ^ q < par_m + q + 1
                 /\ par_result = <<r + 1, par_m + r + 1>>
           /\ par_m = 80
                 => /\ par_result = <<8, 88>>
                    /\ par_fcs_length = 1
                    /\ fcs_bits_count = 8
                    /\ FCS_LENGTH = 1

\* the parameters of the 80 data bits of a frame
C24_Witness ==
    /\ par_pc = "done"
    /\ par_m = 80
    /\ par_result = <<8, 88>>
    /\ par_fcs_length = 1

----------------------------------------------------------------------------
(* on_data_received_1 of 2_LAB and of 4_LAB fed with runs of bytes that     *)
(* hold no flag, with the two flag bytes one at a time, and with a frame.   *)

RECURSIVE ScanFramesFixed(_, _)
\* the while True loop of on_data_received_1 (2_LAB) on the extended
\* buffer: frames are the 15 bytes from the flag on
ScanFramesFixed(buffer, output) ==
    LET start_index == Find(buffer, FLAG)
        potential_frame == Slice(buffer, start_index, start_index + 15)
        raw_data == Slice(potential_frame, 4, 14)
        unstuffed == UnstuffBytes(raw_data)
        next_frame_start == start_index + 15
        rest == IF next_frame_start <= Len(buffer)
                THEN SliceFrom(buffer, next_frame_start)
                ELSE <<>>
        packet == [source_addr |-> potential_frame[3], data |-> unstuffed]
    IN  IF start_index = -1
        THEN [buffer |-> TrimBuffer(buffer), output |-> output]
        ELSE IF Len(buffer) - start_index < 15
        THEN [buffer |-> buffer, output |-> output]
        ELSE ScanFramesFixed(rest, Append(output, packet))

\* on_data_received_1 of 2_LAB
on_data_received_lab2(buffer, data_bytes) ==
    ScanFramesFixed(buffer \o data_bytes, <<>>)

\* n bytes 'B', 'C', 'D', 'E', 'A', 'B', ...: none of them reserved
Junk(n) == [k \in 1..n |-> 65 + (k % 5)]

\* a frame of 2_LAB: flag, source 5, destination 0, ten letters, FCS 0
Frame15 == FLAG \o <<5, DEST_ADDR>> \o [k \in 1..DATA_LENGTH |-> 65] \o <<0>>

\* what one read hands to the handler
TrimChunks ==
    {Junk(n) : n \in {1, 50, MaxJunk - 50, MaxJunk}}
        \cup {<<FLAG_START>>, <<FLAG_END>>, Frame15, Frame15 \o Junk(MaxJunk)}

TrimInit ==
    /\ trim_pc = "idle"
    /\ trim_lab \in {2, 4}
    /\ trim_buffer = <<>>
    /\ trim_appended = <<>>
    /\ trim_calls = 0
    /\ ParamIdle
    /\ PairIdle
    /\ JamIdle
    /\ FeedIdle
    /\ WorkerIdle
    /\ PrepIdle
    /\ BackoffIdle
    /\ Lab4Idle
    /\ HammingIdle
    /\ StuffIdle
    /\ Lab3Idle
    /\ ExtraIdle

\* on_data_received_1(data_bytes)
TrimReceive ==
    /\ trim_pc = "idle"
    /\ trim_calls < MaxTrimCalls
    /\ \E data_bytes \in TrimChunks :
          /\ trim_appended' = trim_buffer \o data_bytes
          /\ trim_buffer' =
                 IF trim_lab = 2
                 THEN on_data_received_lab2(trim_buffer, data_bytes).buffer
                 ELSE on_data_received_1(trim_buffer, data_bytes).buffer
    /\ trim_calls' = trim_calls + 1
    /\ UNCHANGED <<trim_pc, trim_lab>>
    /\ UNCHANGED <<hammingVars, stuffVars, lab3Vars, lab4Vars, feedVars,
                   workerVars, prepVars, backoffVars, paramVars, pairVars,
                   jamVars,
                   extraVars>>

TrimNext == TrimReceive

SpecTrim == TrimInit /\ [][TrimNext]_vars

\* s holds the two flag bytes next to each other
HasFlag(s) == \E j \in 1..(Len(s) - 1) : s[j] = 64 /\ s[j + 1] = 105

\* C26: whenever on_data_received returns with no flag in the buffer, the
\* buffer holds at most 100 bytes; when the buffer had no flag after the
\* append, it is cut to exactly its last 50 bytes if it had grown past 100
\* bytes (never emptied) and is otherwise left as it was after the append.
C26_TrimKeepsLast50 ==
    trim_calls > 0
        => /\ ~HasFlag(trim_buffer) => Len(trim_buffer) <= 100
           /\ ~HasFlag(trim_appended)
                 => IF Len(trim_appended) > 100
                    THEN /\ Len(trim_buffer) = 50
                         /\ \A j \in 1..50 :
                               trim_buffer[j]
                                   = trim_appended[Len(trim_appended) - 50 + j]
                    ELSE trim_buffer = trim_appended

\* a buffer of 100 bytes without a flag took one more byte and was cut to
\* its last 50 bytes
C26_Witness ==
    /\ trim_calls = 3
    /\ Len(trim_appended) = 101
    /\ ~HasFlag(trim_appended)
    /\ Len(trim_buffer) = 50
    /\ trim_buffer[50] = trim_appended[101]
    /\ trim_buffer[1] # trim_appended[1]

----------------------------------------------------------------------------
(* The two endpoints of 4_LAB side by side: the slots on_data_received_1,   *)
(* on_data_received_2 and the two transmit_with_csma_cd calls all run in    *)
(* the GUI thread, one after the other.                                     *)

\* on_data_received_2 of 4_LAB: the code of on_data_received_1 on
\* rx_buffer_2
on_data_received_2(buffer, data_bytes) ==
    ScanFrames(buffer \o data_bytes, <<>>)

\* what one read hands to a handler: either flag byte, the frame of the
\* message "A@"
PairChunks ==
    {<<FLAG_START>>, <<FLAG_END>>,
     prepare_data(<<65, FLAG_START>>, 5)[1].frame}

PairInit ==
    /\ pair_pc = "on"
    /\ rx_buffer_2 = <<>>
    /\ output_2 = <<>>
    /\ fed_1 = <<>>
    /\ fed_2 = <<>>
    /\ pair_tx = 0
    /\ pair_collision_count = <<0, 0>>
    /\ pair_retry_count = <<0, 0>>
    /\ pair_events = <<<<0, 0>>, <<0, 0>>>>
    /\ pair_transmits = 0
    /\ ParamIdle
    /\ TrimIdle
    /\ JamIdle
    /\ FeedIdle
    /\ WorkerIdle
    /\ PrepIdle
    /\ BackoffIdle
    /\ Lab4Idle
    /\ HammingIdle
    /\ StuffIdle
    /\ Lab3Idle
    /\ ExtraIdle

\* the parts of the program the pair leaves alone
PairFrame ==
    UNCHANGED <<hammingVars, stuffVars, lab3Vars, txVars, tx_frames, sends,
                sent_ok, endpointVars, feedVars, workerVars, prepVars,
                backoffVars, paramVars, trimVars, jamVars, pair_pc,
                   extraVars>>

\* on_data_received_2 that works on rx_buffer_1
PairReceive2Shared ==
    /\ pair_pc = "on"
    /\ pair_tx = 0
    /\ Len(fed_1) + Len(fed_2) < MaxPairCalls
    /\ \E data_bytes \in PairChunks :
          /\ LET r == on_data_received_2(rx_buffer_1, data_bytes)
             IN  /\ rx_buffer_1' = r.buffer
                 /\ output_2' = output_2 \o r.output
          /\ fed_2' = Append(fed_2, data_bytes)
    /\ UNCHANGED <<rx_buffer_2, output_text, fed_1, pair_tx,
                   pair_collision_count, pair_retry_count, pair_events,
                   pair_transmits>>
    /\ PairFrame

\* on_data_received_1(data_bytes)
PairReceive1 ==
    /\ pair_pc = "on"
    /\ pair_tx = 0
    /\ Len(fed_1) + Len(fed_2) < MaxPairCalls
    /\ \E data_bytes \in PairChunks :
          /\ LET r == on_data_received_1(rx_buffer_1, data_bytes)
             IN  /\ rx_buffer_1' = r.buffer
                 /\ output_text' = output_text \o r.output
          /\ fed_1' = Append(fed_1, data_bytes)
    /\ UNCHANGED <<rx_buffer_2, output_2, fed_2, pair_tx,
                   pair_collision_count, pair_retry_count, pair_events,
                   pair_transmits>>
    /\ PairFrame

\* on_data_received_2(data_bytes)
PairReceive2 ==
    /\ pair_pc = "on"
    /\ pair_tx = 0
    /\ Len(fed_1) + Len(fed_2) < MaxPairCalls
    /\ \E data_bytes \in PairChunks :
          /\ LET r == on_data_received_2(rx_buffer_2, data_bytes)
             IN  /\ rx_buffer_2' = r.buffer
                 /\ output_2' = output_2 \o r.output
          /\ fed_2' = Append(fed_2, data_bytes)
    /\ UNCHANGED <<rx_buffer_1, output_text, fed_1, pair_tx,
                   pair_collision_count, pair_retry_count, pair_events,
                   pair_transmits>>
    /\ PairFrame

\* self.transmitter_k.transmit_with_csma_cd(list(frame)) is entered:
\* collision_count = 0, retry_count = 0
PairTransmitCall ==
    /\ pair_pc = "on"
    /\ pair_tx = 0
    /\ pair_transmits < MaxPairTransmits
    /\ \E k \in 1..2 :
          /\ pair_tx' = k
          /\ pair_collision_count' = [pair_collision_count EXCEPT ![k] = 0]
          /\ pair_retry_count' = [pair_retry_count EXCEPT ![k] = 0]
          /\ pair_events' = [pair_events EXCEPT ![k] = <<0, 0>>]
    /\ pair_transmits' = pair_transmits + 1
    /\ UNCHANGED <<rx_buffer_1, output_text, rx_buffer_2, output_2, fed_1,
                   fed_2>>
    /\ PairFrame

\* the running call detects a collision: collision_count += 1,
\* retry_count += 1
PairCollision ==
    /\ pair_tx # 0
    /\ pair_retry_count[pair_tx] < MaxPairRetries
    /\ pair_collision_count' =
           [pair_collision_count EXCEPT ![pair_tx] = @ + 1]
    /\ pair_retry_count' = [pair_retry_count EXCEPT ![pair_tx] = @ + 1]
    /\ pair_events' = [pair_events EXCEPT ![pair_tx] = <<@[1] + 1, @[2]>>]
    /\ UNCHANGED <<rx_buffer_1, output_text, rx_buffer_2, output_2, fed_1,
                   fed_2, pair_tx, pair_transmits>>
    /\ PairFrame

\* port.write raises in the running call: retry_count += 1
PairWriteError ==
    /\ pair_tx # 0
    /\ pair_retry_count[pair_tx] < MaxPairRetries
    /\ pair_retry_count' = [pair_retry_count EXCEPT ![pair_tx] = @ + 1]
    /\ pair_events' = [pair_events EXCEPT ![pair_tx] = <<@[1], @[2] + 1>>]
    /\ UNCHANGED <<rx_buffer_1, output_text, rx_buffer_2, output_2, fed_1,
                   fed_2, pair_tx, pair_collision_count, pair_transmits>>
    /\ PairFrame

\* the running call returns
PairTransmitReturn ==
    /\ pair_tx # 0
    /\ pair_tx' = 0
    /\ UNCHANGED <<rx_buffer_1, output_text, rx_buffer_2, output_2, fed_1,
                   fed_2, pair_collision_count, pair_retry_count,
                   pair_events, pair_transmits>>
    /\ PairFrame

PairNext ==
    \/ PairReceive1
    \/ PairReceive2
    \/ PairTransmitCall
    \/ PairCollision
    \/ PairWriteError
    \/ PairTransmitReturn

SpecPair == PairInit /\ [][PairNext]_vars

RECURSIVE AloneBuffer(_, _)
\* the buffer of an endpoint that got the calls in fed, from the buffer
\* given, with nothing else running
AloneBuffer(buffer, fed) ==
    IF fed = <<>> THEN buffer
    ELSE AloneBuffer(ScanFrames(buffer \o Head(fed), <<>>).buffer, Tail(fed))

\* C27: the two endpoints share no state: on_data_received_1 changes only
\* rx_buffer_1 and on_data_received_2 only rx_buffer_2, the collision and
\* retry counters of a transmitter count the events of its own call only,
\* and each endpoint's buffer is what it would be had that endpoint run
\* alone.
C27_EndpointsIndependent ==
    pair_pc = "on"
        => /\ rx_buffer_1 = AloneBuffer(<<>>, fed_1)
           /\ rx_buffer_2 = AloneBuffer(<<>>, fed_2)
           /\ \A k \in 1..2 :
                 /\ pair_collision_count[k] = pair_events[k][1]
                 /\ pair_retry_count[k] = pair_events[k][1] + pair_events[k][2]

\* both endpoints hold a partial frame of their own and both transmitters
\* have counted events of their own call
C27_Witness ==
    /\ pair_pc = "on"
    /\ rx_buffer_1 = <<FLAG_START>>
    /\ rx_buffer_2 = <<FLAG_END, FLAG_END>>
    /\ pair_collision_count = <<2, 0>>
    /\ pair_retry_count = <<2, 1>>

----------------------------------------------------------------------------
(* send_jam_signal of CSMACDTransmitter: called on its own, as              *)
(* test_send_jam_signal does, on a port that is absent, closed or open, and *)
(* called by the collision branch of transmit_with_csma_cd.                 *)

JamInit ==
    /\ jam_pc = "ready"
    /\ jam_port \in {"absent", "closed", "open"}
    /\ jam_data \in SeqsOf({65, JAM}, 0, MaxJamData)
    /\ jam_before = jam_data
    /\ jam_write_ok = TRUE
    /\ jam_raised = FALSE
    /\ jam_collisions = 0
    /\ jam_bursts = 0
    /\ jam_calls = 0
    /\ ParamIdle
    /\ TrimIdle
    /\ PairIdle
    /\ FeedIdle
    /\ WorkerIdle
    /\ PrepIdle
    /\ BackoffIdle
    /\ Lab4Idle
    /\ HammingIdle
    /\ StuffIdle
    /\ Lab3Idle
    /\ ExtraIdle

JamFrame ==
    UNCHANGED <<hammingVars, stuffVars, lab3Vars, lab4Vars, feedVars,
                workerVars, prepVars, backoffVars, paramVars, trimVars,
                pairVars, jam_pc, jam_port,
                   extraVars>>

\* self.transmitter.send_jam_signal(): port.write is reached when the port
\* is there and open; an exception of the write is caught
SendJamSignal ==
    /\ jam_pc = "ready"
    /\ jam_calls < MaxJamCalls
    /\ jam_before' = jam_data
    /\ IF jam_port = "open"
       THEN \E write_ok \in BOOLEAN :
               /\ jam_data' = send_jam_signal(jam_data, write_ok)
               /\ jam_write_ok' = write_ok
       ELSE /\ jam_data' = jam_data
            /\ jam_write_ok' = TRUE
    /\ jam_raised' = FALSE
    /\ jam_calls' = jam_calls + 1
    /\ UNCHANGED <<jam_collisions, jam_bursts>>
    /\ JamFrame

\* if self.detect_collision(): self.send_jam_signal(); the loop is only
\* entered with an open port
JamOnCollision ==
    /\ jam_pc = "ready"
    /\ jam_calls < MaxJamCalls
    /\ jam_port = "open"
    /\ jam_before' = jam_data
    /\ \E write_ok \in BOOLEAN :
          /\ jam_data' = send_jam_signal(jam_data, write_ok)
          /\ jam_write_ok' = write_ok
          /\ jam_bursts' = IF write_ok THEN jam_bursts + 1 ELSE jam_bursts
    /\ jam_raised' = FALSE
    /\ jam_collisions' = jam_collisions + 1
    /\ jam_calls' = jam_calls + 1
    /\ JamFrame

JamNext == SendJamSignal \/ JamOnCollision

SpecJam == JamInit /\ [][JamNext]_vars

----------------------------------------------------------------------------
(* The while True loop of on_data_received_1, of 4_LAB and of 2_LAB, one    *)
(* iteration at a time, on buffers with whole frames, repeated flags and    *)
(* flags inside the data.                                                   *)

\* one iteration that finds a frame and leaves the buffer as it was
ScanIterationKeep(buffer) ==
    LET start_index == Find(buffer, FLAG)
    IN  IF start_index = -1
        THEN [buffer |-> TrimBuffer(buffer), returned |-> TRUE, shown |-> <<>>]
        ELSE IF Len(buffer) - start_index < 15
        THEN [buffer |-> buffer, returned |-> TRUE, shown |-> <<>>]
        ELSE [buffer |-> buffer, returned |-> FALSE, shown |-> <<>>]

\* one iteration of the loop of 4_LAB: returned tells that it left the
\* handler, shown holds the payload it displayed (at most one)
ScanIteration4(buffer) ==
    LET start_index == Find(buffer, FLAG)
        min_frame_size == 4 + DATA_LENGTH
        potential_frame == SliceFrom(buffer, start_index)
        raw_data == SliceFrom(potential_frame, 4)
        unstuffed == UnstuffBytes(raw_data)
        received_data == Slice(unstuffed, 0, DATA_LENGTH)
        actual_frame_size == 4 + Len(raw_data)
        next_frame_start == start_index + actual_frame_size
    IN  IF start_index = -1
        THEN [buffer |-> TrimBuffer(buffer), returned |-> TRUE, shown |-> <<>>]
        ELSE IF Len(buffer) - start_index < min_frame_size
        THEN [buffer |-> buffer, returned |-> TRUE, shown |-> <<>>]
        ELSE IF Len(unstuffed) < DATA_LENGTH
        THEN [buffer |-> buffer, returned |-> TRUE, shown |-> <<>>]
        ELSE [buffer |-> IF next_frame_start <= Len(buffer)
                         THEN SliceFrom(buffer, next_frame_start)
                         ELSE <<>>,
              returned |-> FALSE,
              shown |-> <<received_data>>]

\* one iteration of the loop of 2_LAB
ScanIteration2(buffer) ==
    LET start_index == Find(buffer, FLAG)
        potential_frame == Slice(buffer, start_index, start_index + 15)
        raw_data == Slice(potential_frame, 4, 14)
        unstuffed == UnstuffBytes(raw_data)
        next_frame_start == start_index + 15
    IN  IF start_index = -1
        THEN [buffer |-> TrimBuffer(buffer), returned |-> TRUE, shown |-> <<>>]
        ELSE IF Len(buffer) - start_index < 15
        THEN [buffer |-> buffer, returned |-> TRUE, shown |-> <<>>]
        ELSE [buffer |-> IF next_frame_start <= Len(buffer)
                         THEN SliceFrom(buffer, next_frame_start)
                         ELSE <<>>,
              returned |-> FALSE,
              shown |-> <<unstuffed>>]

\* the smallest frame of each variant: 4 + DATA_LENGTH, and 15 with the FCS
MinFrameSize(lab) == IF lab = 2 THEN 15 ELSE 4 + DATA_LENGTH

\* a frame whose data hold the flag twice
FrameOfFlags == FLAG \o <<5, DEST_ADDR>> \o FLAG \o FLAG
                    \o [k \in 1..(DATA_LENGTH - 4) |-> 65] \o <<0>>

\* a header followed by ten bytes that de-stuff to five
FrameOfEscapes == FLAG \o <<5, DEST_ADDR>>
                    \o [k \in 1..DATA_LENGTH |->
                            IF k % 2 = 1 THEN ESC ELSE FLAG_START]

\* what one read hands to the handler
ScanChunks ==
    {<<FLAG_START>>, FLAG, FLAG \o FLAG, Frame15, Frame15 \o Frame15,
     FrameOfFlags, FrameOfEscapes, Junk(3) \o Frame15 \o FrameOfFlags}

\* what the buffer holds when the harness starts
ScanBuffers == {<<>>, <<FLAG_START>>, FLAG \o Junk(3)}

ScanInit ==
    /\ scan_pc = "idle"
    /\ scan_lab \in {2, 4}
    /\ scan_buffer \in ScanBuffers
    /\ scan_output = <<>>
    /\ scan_iters = 0
    /\ scan_calls = 0
    /\ RtIdle
    /\ ParamIdle
    /\ TrimIdle
    /\ PairIdle
    /\ JamIdle
    /\ FeedIdle
    /\ WorkerIdle
    /\ PrepIdle
    /\ BackoffIdle
    /\ Lab4Idle
    /\ HammingIdle
    /\ StuffIdle
    /\ Lab3Idle

\* on_data_received_1(data_bytes) up to the head of the loop
ScanReceive ==
    /\ scan_pc = "idle"
    /\ scan_calls < MaxScanCalls
    /\ \E data_bytes \in ScanChunks :
          scan_buffer' = scan_buffer \o data_bytes
    /\ scan_pc' = "loop"
    /\ scan_iters' = 0
    /\ scan_calls' = scan_calls + 1
    /\ UNCHANGED <<scan_lab, scan_output>>
    /\ UNCHANGED <<hammingVars, stuffVars, lab3Vars, lab4Vars, feedVars,
                   workerVars, prepVars, backoffVars, paramVars, trimVars,
                   pairVars, jamVars, rtVars>>

\* one pass through the body of the loop
ScanIterate ==
    /\ scan_pc = "loop"
    /\ LET step == IF scan_lab = 2
                   THEN ScanIteration2(scan_buffer)
                   ELSE ScanIteration4(scan_buffer)
       IN  /\ scan_buffer' = step.buffer
           /\ scan_output' = scan_output \o step.shown
           /\ scan_pc' = IF step.returned THEN "idle" ELSE "loop"
    /\ scan_iters' = scan_iters + 1
    /\ UNCHANGED <<scan_lab, scan_calls>>
    /\ UNCHANGED <<hammingVars, stuffVars, lab3Vars, lab4Vars, feedVars,
                   workerVars, prepVars, backoffVars, paramVars, trimVars,
                   pairVars, jamVars, rtVars>>

ScanNext == ScanReceive \/ ScanIterate

SpecScan == ScanInit /\ [][ScanNext]_vars

\* C34: every call of on_data_received terminates for every buffer content
\* and every appended chunk, buffers with spurious or repeated flag patterns
\* included: each iteration of the scan loop either returns or removes at
\* least one whole minimum-size frame from the buffer, so that the length
\* of the buffer bounds the iterations of a call.
C34_ScanTerminates ==
    [][scan_pc = "loop"
          => \/ scan_pc' = "idle"
             \/ Len(scan_buffer') + MinFrameSize(scan_lab)
                    <= Len(scan_buffer)]_vars

\* a call of 2_LAB went through the loop three times: two frames, one of
\* them with flags in its data, were removed before it returned
C34_Witness ==
    /\ scan_pc = "idle"
    /\ scan_lab = 2
    /\ scan_iters = 3
    /\ Len(scan_output) >= 2

----------------------------------------------------------------------------
(* 2_LAB: prepare_data frames one chunk of DATA_LENGTH bytes, send_data_1   *)
(* writes the frame, the worker reads it byte by byte and hands each byte   *)
(* to on_data_received_1.                                                   *)

\* self.FCS of 2_LAB
FCS == <<0>>

\* prepare_data of 2_LAB: flag, addresses, stuffed chunk, FCS
prepare_data_lab2(data_bytes, source_port_num) ==
    LET chunks == Chunks(data_bytes)
    IN  [k \in 1..Len(chunks) |->
            LET padded == PadChunk(chunks[k])
            IN  [chunk |-> padded,
                 frame |-> FLAG \o <<SourceAddr(source_port_num), DEST_ADDR>>
                                \o StuffBytes(padded) \o FCS]]

\* the payloads: a prefix over the letter 'A' and the reserved bytes,
\* filled with 'A' to DATA_LENGTH bytes
RtPayloads ==
    {prefix \o [k \in 1..(DATA_LENGTH - MaxReservedPrefix) |-> 65] :
        prefix \in SeqsOf({65} \cup ReservedBytes,
                          MaxReservedPrefix, MaxReservedPrefix)}

RtInit ==
    /\ rt_pc = "start"
    /\ rt_payload \in RtPayloads
    /\ rt_frame = <<>>
    /\ rt_line = <<>>
    /\ rt_buffer = <<>>
    /\ rt_output = <<>>
    /\ ScanIdle
    /\ ParamIdle
    /\ TrimIdle
    /\ PairIdle
    /\ JamIdle
    /\ FeedIdle
    /\ WorkerIdle
    /\ PrepIdle
    /\ BackoffIdle
    /\ Lab4Idle
    /\ HammingIdle
    /\ StuffIdle
    /\ Lab3Idle

\* send_data_1 of 2_LAB: prepare_data, then port_tx_1.write(frame)
RtSend ==
    /\ rt_pc = "start"
    /\ \E port_num \in SourcePorts :
          rt_frame' = prepare_data_lab2(rt_payload, port_num)[1].frame
    /\ rt_line' = rt_frame'
    /\ rt_pc' = "written"
    /\ UNCHANGED <<rt_payload, rt_buffer, rt_output>>
    /\ UNCHANGED <<hammingVars, stuffVars, lab3Vars, lab4Vars, feedVars,
                   workerVars, prepVars, backoffVars, paramVars, trimVars,
                   pairVars, jamVars, scanVars>>

\* SerialWorker.run reads one byte and on_data_received_1 takes it
RtReceiveByte ==
    /\ rt_pc = "written"
    /\ rt_line # <<>>
    /\ LET result == on_data_received_lab2(rt_buffer, <<Head(rt_line)>>)
       IN  /\ rt_buffer' = result.buffer
           /\ rt_output' = rt_output
                  \o [k \in 1..Len(result.output) |-> result.output[k].data]
    /\ rt_line' = Tail(rt_line)
    /\ rt_pc' = IF Len(rt_line) = 1 THEN "read" ELSE "written"
    /\ UNCHANGED <<rt_payload, rt_frame>>
    /\ UNCHANGED <<hammingVars, stuffVars, lab3Vars, lab4Vars, feedVars,
                   workerVars, prepVars, backoffVars, paramVars, trimVars,
                   pairVars, jamVars, scanVars>>

RtNext == RtSend \/ RtReceiveByte

SpecRoundTrip2 == RtInit /\ [][RtNext]_vars

\* C35: in the byte-stuffing variant (2_LAB), for every 10-byte payload p,
\* payloads that contain reserved bytes included, the receiver fed the frame
\* produced by prepare_data delivers an unstuffed payload of exactly
\* DATA_LENGTH bytes equal to p and removes exactly that frame's bytes from
\* the buffer.
C35_FrameRoundTrip ==
    rt_pc = "read"
        => /\ rt_output = <<rt_payload>>
           /\ Len(rt_output[1]) = DATA_LENGTH
           /\ rt_buffer = <<>>

----------------------------------------------------------------------------
(* generate_backoff_time of CSMACDTransmitter on its own.                  *)

max_backoff_exp == 10

cw_min == 7

cw_max == 1023

\* 5 ms per slot
SlotMs == 5

Min(a, b) == IF a < b THEN a ELSE b

Max(a, b) == IF a > b THEN a ELSE b

ContentionWindowUncapped(collision_count_) ==
    Max(cw_min, 2 ^ collision_count_ - 1)

\* a contention window without the lower limit cw_min
ContentionWindowNoFloor(collision_count_) ==
    Min(2 ^ Min(collision_count_, max_backoff_exp) - 1, cw_max)

\* k = min(collision_count, max_backoff_exp); cw = min(2 ** k - 1, cw_max);
\* cw = max(cw_min, cw)
ContentionWindow(collision_count_) ==
    LET k == Min(collision_count_, max_backoff_exp)
        cw == Min(2 ^ k - 1, cw_max)
    IN  Max(cw_min, cw)

BackoffInit ==
    /\ bo_pc = "start"
    /\ bo_collisions \in 0..MaxCollisionCount
    /\ backoff_time = 0
    /\ FeedIdle
    /\ WorkerIdle
    /\ PrepIdle
    /\ UnitIdle
    /\ Lab4Idle
    /\ HammingIdle
    /\ StuffIdle
    /\ Lab3Idle

\* random_slots = random.randint(0, cw); return random_slots * 5
generate_backoff_time ==
    /\ bo_pc = "start"
    /\ \E random_slots \in 0..ContentionWindow(bo_collisions) :
          backoff_time' = random_slots * SlotMs
    /\ bo_pc' = "done"
    /\ UNCHANGED bo_collisions
    /\ UNCHANGED <<hammingVars, stuffVars, lab3Vars, lab4Vars, feedVars,
                   workerVars, prepVars, unitVars>>

BackoffNext == generate_backoff_time

SpecBackoff == BackoffInit /\ [][BackoffNext]_vars

\* C18: for every collision_count k >= 0, generate_backoff_time(k) is a
\* whole number of 5 ms slots in [0, 5115], drawn from [0, cw] slots with
\* cw = clamp(2^min(k, 10) - 1, 7, 1023); it is at most 35 for k = 0.
C18_BackoffRange ==
    bo_pc = "done"
        => LET k == bo_collisions
               raw == 2 ^ (IF k < 10 THEN k ELSE 10) - 1
               cw == IF raw < 7 THEN 7 ELSE IF raw > 1023 THEN 1023 ELSE raw
           IN  /\ backoff_time % 5 = 0
               /\ backoff_time >= 0
               /\ backoff_time <= 5115
               /\ backoff_time \div 5 <= cw
               /\ k = 0 => backoff_time <= 35

\* the longest backoff, drawn past the exponent cap
C18_Witness ==
    /\ bo_pc = "done"
    /\ bo_collisions > 10
    /\ backoff_time = 5115

\* C31: the contention window of generate_backoff_time is non-decreasing
\* in collision_count: every delay possible for k is possible for k + 1;
\* the window stays at 7 slots for k <= 3 and is constant at 1023 slots for
\* every k >= MAX_BACKOFF_EXP = 10.
C31_WindowMonotone ==
    bo_pc = "done"
        => LET k == bo_collisions
           IN  /\ \E slots \in 0..ContentionWindow(k + 1) :
                     backoff_time = slots * 5
               /\ ContentionWindow(k) <= ContentionWindow(k + 1)
               /\ k <= 3 => (ContentionWindow(k) = 7 /\ backoff_time <= 35)
               /\ k >= 10
                     => (ContentionWindow(k) = 1023 /\ backoff_time <= 5115)

\* the longest delay of the smallest window, after three collisions
C31_Witness ==
    /\ bo_pc = "done"
    /\ bo_collisions = 3
    /\ backoff_time = 35

----------------------------------------------------------------------------
(* Harness of the codec: encode a data vector, flip up to two bits of the  *)
(* codeword, decode (the three parts of 3_LAB/test_hamming.py).            *)

HammingInit ==
    /\ hpc = "start"
    /\ data_bits \in BitVectors(MaxDataBits)
    /\ encoded_bits = <<>>
    /\ flipped = {}
    /\ decoded = <<>>
    /\ decoded_4 = <<>>
    /\ StuffIdle
    /\ Lab3Idle
    /\ Lab4Idle
    /\ HarnessIdle

Encode ==
    /\ hpc = "start"
    /\ encoded_bits' = hamming_encode(data_bits)
    /\ hpc' = "encoded"
    /\ UNCHANGED <<data_bits, flipped, decoded, decoded_4, stuffVars, lab3Vars, lab4Vars, harnessVars>>

\* corrupted_encoded[i] ^= 1
FlipBit ==
    /\ hpc = "encoded"
    /\ Cardinality(flipped) < 2
    /\ \E i \in 0..(Len(encoded_bits) - 1) :
          /\ i \notin flipped
          /\ encoded_bits' = [encoded_bits EXCEPT ![i + 1] = 1 - encoded_bits[i + 1]]
          /\ flipped' = flipped \cup {i}
    /\ UNCHANGED <<hpc, data_bits, decoded, decoded_4, stuffVars, lab3Vars, lab4Vars, harnessVars>>

Decode ==
    /\ hpc = "encoded"
    /\ decoded' = hamming_decode(encoded_bits)
    /\ hpc' = "decoded"
    /\ UNCHANGED <<data_bits, encoded_bits, flipped, decoded_4, stuffVars, lab3Vars, lab4Vars, harnessVars>>

\* hamming_decode of 4_LAB/hamming_functions.py on the same code bits
Decode4 ==
    /\ hpc = "decoded"
    /\ decoded_4' = hamming_decode_4(encoded_bits)
    /\ hpc' = "compared"
    /\ UNCHANGED <<data_bits, encoded_bits, flipped, decoded, stuffVars, lab3Vars, lab4Vars, harnessVars>>

HammingNext == Encode \/ FlipBit \/ Decode \/ Decode4

SpecHamming == HammingInit /\ [][HammingNext]_vars

----------------------------------------------------------------------------
(* Claims about the Hamming codec *)

\* C1: for every bit vector d, hamming_decode(hamming_encode(d)) returns
\* (d, corrected = false, double_error = false).
C1_RoundTrip ==
    (hpc = "decoded" /\ flipped = {}) => decoded = <<data_bits, FALSE, FALSE>>

\* XOR of the bits of s
OverallParity(s) == Cardinality({j \in 1..Len(s) : s[j] = 1}) % 2

\* C25: for every d, the codeword hamming_encode(d) has syndrome 0, the XOR
\* of the 1-indexed positions of its set bits over all n positions as
\* hamming_decode computes it, and overall parity 0.
C25_CodewordSyndromeZero ==
    (hpc = "encoded" /\ flipped = {})
        => /\ Syndrome(encoded_bits, Len(encoded_bits)) = 0
           /\ OverallParity(encoded_bits) = 0

\* C32: for every data vector d and every set of at most two bit flips
\* applied to hamming_encode(d), hamming_decode never reaches the state
\* syndrome == 0 and total_parity == 1.
C32_NoInconsistentBranch ==
    hpc \in {"decoded", "compared"}
        => ~(/\ Syndrome(encoded_bits, Len(encoded_bits)) = 0
             /\ OverallParity(encoded_bits) = 1)

\* C33: hamming_decode of 4_LAB/hamming_functions.py and hamming_decode of
\* 3_LAB/main_app.py return the same triple for every codeword: both return
\* exactly m data bits, taken in order from the positions that are neither
\* powers of two nor the last position.
C33_DecodersAgree ==
    hpc = "compared"
        => /\ decoded_4 = decoded
           /\ Len(decoded_4[1]) = Len(data_bits)
           /\ Len(decoded[1]) = Len(data_bits)

\* C2: flipping any single bit i of hamming_encode(d), parity positions and
\* the last position included, and decoding returns (d, true, false).
C2_SingleErrorCorrected ==
    (hpc = "decoded" /\ Cardinality(flipped) = 1)
        => decoded = <<data_bits, TRUE, FALSE>>

\* C3: flipping any two distinct bits of hamming_encode(d) and decoding
\* returns double_error = true and corrected = false.
C3_DoubleErrorDetected ==
    (hpc = "decoded" /\ Cardinality(flipped) = 2)
        => (decoded[3] = TRUE /\ decoded[2] = FALSE)

====
